---------------------------- MODULE Spec2Model ----------------------------
(***************************************************************************)
(* A model of cura/Settings/MachineManager.py: the resolver that owns the  *)
(* active machine and keeps nozzle, material, quality and extruder         *)
(* enablement of its global stack and extruder stacks consistent.          *)
(*                                                                         *)
(* The registry, the container stacks and the profile catalog are          *)
(* collaborators of MachineManager; they are modelled by their contracts   *)
(* (small fixed tables).  Every method of MachineManager is an operator    *)
(* over a record S holding all fields of the program state, translated     *)
(* statement by statement; an action applies one public method to the      *)
(* current state.                                                          *)
(***************************************************************************)
EXTENDS Integers, Sequences, FiniteSets, TLC

\* ------------------------------------------------------------------ bounds
MaxExtruders == 2      \* extruder stacks per machine: positions 0 .. MaxExtruders-1
MaxOps == 2            \* steps of one behaviour (a timer that is due still expires)

\* --------------------------------------------------------------- constants
None == "none"                                  \* Python's None
empty_variant_container == "empty_variant"
empty_material_container == "empty_material"
empty_quality_container == "empty_quality"
empty_quality_changes_container == "empty_quality_changes"
NotSupported == "not_supported"

Machines == {"A", "B", "C"}                     \* stack ids the registry can hold
Positions == 0 .. (MaxExtruders - 1)            \* keys of GlobalStack.extruders
GlobalPos == -1                                 \* names the global stack of a machine

\* Static metadata of the machine stacks in the registry.  A and B are two
\* printer-type instances of one network group; C fails validation.
DefinitionName(m) == CASE m = "A" -> "um3" [] m = "B" -> "ums5" [] OTHER -> "um2"
GroupId(m) == IF m \in {"A", "B"} THEN "g1" ELSE None
HasMaterials(m) == TRUE
PreferredQualityType(m) == IF m = "B" THEN "fine" ELSE "draft"

\* ----------------------------------------------------------------- catalog
Nozzles == {"AA", "BB"}
Buildplates == {"glass"}
QualityTypes == {"draft", "normal"}
QualityChangesNames == {"custom1", "custom2"}
MaterialContainers == {"pla_AA", "abs_AA", "abs_BB", "pva"}

\* metadata of the material containers
\* ("pva" is a material no nozzle of these machines offers and no quality
\* profile exists for)
BaseFile(c) ==
  CASE c = "pla_AA" -> "pla" [] c \in {"abs_AA", "abs_BB"} -> "abs" [] c = "pva" -> "pva"
    [] OTHER -> None
Guid(c) ==
  CASE c = "pla_AA" -> "guid_pla" [] c \in {"abs_AA", "abs_BB"} -> "guid_abs"
    [] c = "pva" -> "guid_pva" [] OTHER -> None
Compatible(c) == c \in {"pla_AA", "abs_AA", "pva"}
MaterialQualityTypes(c) ==
  CASE c = "pla_AA" -> {"draft", "normal"} [] c = "abs_AA" -> {"draft"} [] OTHER -> {}

\* MaterialManager.getAvailableMaterials: the containers offered for a nozzle
getAvailableMaterials(nozzle) ==
  CASE nozzle = "AA" -> {"pla_AA", "abs_AA"} [] nozzle = "BB" -> {"abs_BB"} [] OTHER -> {}
\* MaterialManager.getDefaultMaterial: node of the machine's preferred material
\* for the nozzle, or None (ums5 prefers a material the catalog does not hold)
getDefaultMaterial(m, nozzle) ==
  IF nozzle = "AA" /\ DefinitionName(m) # "ums5" THEN "pla_AA" ELSE None
\* MaterialManager.getMaterialNodeByType: node of the material with this GUID
getMaterialNodeByType(nozzle, guid) ==
  LET c == {x \in getAvailableMaterials(nozzle) : Guid(x) = guid}
  IN IF c = {} THEN None ELSE CHOOSE x \in c : TRUE
\* VariantManager.getVariantNode / getBuildplateVariantNode: exact name match
getVariantNode(name) == IF name \in Nozzles THEN name ELSE None
getBuildplateVariantNode(name) == IF name \in Buildplates THEN name ELSE None
\* the machine_buildplate_type a build-plate variant gives the global stack
MachineBuildplateType(name) == IF name = "glass" THEN "glass_plate" ELSE ""

\* ContainerNode.getContainer of a quality node: the profile of ums5's
\* "normal" quality cannot be loaded, so its node resolves to no container.
QualityContainer(m, qt) ==
  IF DefinitionName(m) = "ums5" /\ qt = "normal" THEN None ELSE qt


\* QualityManager.getQualityGroups hands out one group per quality type of the
\* machine, in this (insertion) order.
QualityTypeOrder == <<"normal", "draft">>
\* The quality types machine m has a group of.  ums5 has a "fine" profile as
\* well, its last group, which none of the materials supports.
QualityTypesOf(m) ==
  IF DefinitionName(m) = "ums5" THEN QualityTypes \cup {"fine"} ELSE QualityTypes
NoGroup == [machine |-> None, quality_type |-> None, exts |-> {}, unresolved |-> {}]

\* ------------------------------------------------------------------- state
VARIABLES
  registry,    \* ids of the machine stacks in the container registry
  app,         \* Application's global container stack (a machine id or None)
  active,      \* MachineManager._global_container_stack
  stacks,      \* per machine: the slots of its global stack and extruder stacks
  curQG,       \* MachineManager._current_quality_group
  curQCG,      \* MachineManager._current_quality_changes_group (a name or None)
  rootMat,     \* MachineManager._current_root_material_id
  defExt,      \* MachineManager._default_extruder_position
  activeExt,   \* ExtruderManager.activeExtruderIndex
  connected,   \* stacks whose containersChanged is connected to _onContainersChanged
  timer,       \* _instance_container_timer is running
  pref,        \* preference "cura/active_machine"
  faulty,      \* ConfigurationErrorMessage's faulty containers
  qcType,      \* quality_type of each quality-changes group of the catalog
  qcExt,       \* per quality-changes container: its value of the extruder-typed setting
  config,      \* MachineManager._current_printer_configuration
  raised,      \* the exception the last operation ended with (None: it returned)
  log,         \* what the last operation did, in order (writes, emits, deliveries)
  notice,      \* the last operation showed a Message to the user
  toDisable,   \* applyRemoteConfiguration's extruders_to_disable as first computed
  deletions,   \* removeMachine: each removeContainer(machine_id) it made
  last,        \* the last operation and its arguments
  ops          \* number of operations so far

vars == <<registry, app, active, stacks, curQG, curQCG, rootMat, defExt, activeExt,
          connected, timer, pref, faulty, qcType, qcExt, config, raised, log, notice,
          toDisable, deletions, last, ops>>

\* The program state as one record, so that a method is an operator on it.
\* postponed and queued are the signals a postponeSignals scope in progress
\* holds back and those emitted inside it; no scope is open between operations.
State ==
  [registry |-> registry, app |-> app, active |-> active, stacks |-> stacks,
   curQG |-> curQG, curQCG |-> curQCG, rootMat |-> rootMat, defExt |-> defExt,
   activeExt |-> activeExt, connected |-> connected, timer |-> timer, pref |-> pref,
   faulty |-> faulty, qcType |-> qcType, qcExt |-> qcExt, config |-> config,
   raised |-> None, postponed |-> {}, queued |-> {},
   log |-> <<>>, notice |-> FALSE, toDisable |-> {}, deletions |-> <<>>]

\* The operation `op` took the program from the current state to S.
Assign(S, op) ==
  /\ S.postponed = {} /\ S.queued = {}
  /\ last' = op
  /\ registry' = S.registry /\ app' = S.app /\ active' = S.active
  /\ stacks' = S.stacks /\ curQG' = S.curQG /\ curQCG' = S.curQCG
  /\ rootMat' = S.rootMat /\ defExt' = S.defExt /\ activeExt' = S.activeExt
  /\ connected' = S.connected /\ timer' = S.timer /\ pref' = S.pref
  /\ faulty' = S.faulty /\ qcType' = S.qcType
  /\ qcExt' = S.qcExt /\ config' = S.config /\ raised' = S.raised
  /\ log' = S.log /\ notice' = S.notice
  /\ toDisable' = S.toDisable /\ deletions' = S.deletions

\* a call of a public operation: one of the MaxOps steps of a behaviour
Commit(S, op) ==
  /\ ops < MaxOps
  /\ ops' = ops + 1
  /\ Assign(S, op)


\* ------------------------------------------------------------ notifications
Ev(k, m, p, n) == [k |-> k, m |-> m, p |-> p, n |-> n]
Logged(S, e) == [S EXCEPT !.log = Append(@, e)]

\* a slot that only records the delivery and leaves the timer alone
onContainersChangedNoRestart(S, st) ==
  Logged(S, Ev("recv", st[1], st[2], "containersChanged"))

\* _onContainersChanged: (re)starts the single-shot debounce timer
onContainersChanged(S, st) ==
  [S EXCEPT !.timer = TRUE, !.log = Append(@, Ev("recv", st[1], st[2], "containersChanged"))]

\* A stack emits containersChanged: held back inside a postponeSignals scope
\* that names the stack's signal, delivered to the connected slot otherwise.
containersChanged(S, st) ==
  IF st \in S.postponed THEN [S EXCEPT !.queued = @ \cup {st}]
  ELSE IF st \in S.connected THEN onContainersChanged(S, st)
  ELSE S

\* _getContainerChangedSignals, with ExtruderManager.getActiveExtruderStacks:
\* the extruder stacks below machine_extruder_count of the application's stack
getActiveExtruderStacks(S) ==
  IF S.app = None THEN {}
  ELSE {<<S.app, p>> : p \in {q \in Positions : q < S.stacks[S.app].count}}
getContainerChangedSignals(S) ==
  IF S.active = None THEN {}
  ELSE getActiveExtruderStacks(S) \cup {<<S.active, GlobalPos>>}

\* with postponeSignals(*signals, compress = CompressPerParameterValue): entry
postponeSignals(S) == [S EXCEPT !.postponed = getContainerChangedSignals(S), !.queued = {}]
\* ... and exit: every held-back signal is emitted once, lowest position first
RECURSIVE releaseSignals(_, _)
releaseSignals(S, q) ==
  IF q = {} THEN S
  ELSE LET st == CHOOSE x \in q : \A y \in q : x[2] <= y[2]
       IN releaseSignals(containersChanged(S, st), q \ {st})
endPostponeSignals(S) ==
  releaseSignals([S EXCEPT !.postponed = {}, !.queued = {}], S.queued)

\* stack.<slot> = container on the global stack (p = GlobalPos) or an extruder stack
Write(S, m, p, slot, val) ==
  LET S1 == IF p = GlobalPos THEN [S EXCEPT !.stacks[m][slot] = val]
            ELSE [S EXCEPT !.stacks[m].ext[p][slot] = val]
  IN containersChanged(Logged(S1, Ev("write", m, p, slot)), <<m, p>>)
\* ExtruderStack.setEnabled: metadata, no containersChanged
setEnabled(S, m, p, val) ==
  Logged([S EXCEPT !.stacks[m].ext[p].enabled = val], Ev("write", m, p, "enabled"))

\* _onRootMaterialChanged
onRootMaterialChanged(S) ==
  IF S.active = None THEN [S EXCEPT !.rootMat = [p \in {} |-> None]]
  ELSE [S EXCEPT !.rootMat = [p \in Positions |-> BaseFile(S.stacks[S.active].ext[p].material)]]
\* PrinterConfigurationModel(): no printer type, no extruders, no build plate
NoPrinterConfiguration ==
  [printerType |-> "", extruderConfigurations |-> [p \in {} |-> None],
   buildplateConfiguration |-> ""]
\* _onCurrentConfigurationChanged, lines 188-199: one entry per extruder stack
extruderConfiguration(S, p) ==
  [hotendID |-> IF S.stacks[S.active].ext[p].variant # empty_variant_container
                THEN S.stacks[S.active].ext[p].variant ELSE None,
   guid |-> IF S.stacks[S.active].ext[p].material # empty_material_container
            THEN Guid(S.stacks[S.active].ext[p].material) ELSE None]
\* _onCurrentConfigurationChanged
onCurrentConfigurationChanged(S) ==
  IF S.active = None THEN S
  ELSE Logged([S EXCEPT !.config =
                 [printerType |-> DefinitionName(S.active),
                  extruderConfigurations |-> [p \in Positions |-> extruderConfiguration(S, p)],
                  buildplateConfiguration |->
                    IF S.stacks[S.active].variant # empty_variant_container
                    THEN MachineBuildplateType(S.stacks[S.active].variant) ELSE ""]],
              Ev("emit", "", GlobalPos, "currentConfigurationChanged"))
\* signal.emit() of one of MachineManager's pyqtSignals: its slots run at once
Emit(S, sig) ==
  CHOOSE R \in {CASE sig = "rootMaterialChanged" -> onRootMaterialChanged(S1)
                  [] sig \in {"activeMaterialChanged", "activeVariantChanged"} ->
                       onCurrentConfigurationChanged(S1)
                  [] OTHER -> S1 : S1 \in {Logged(S, Ev("emit", "", GlobalPos, sig))}} : TRUE
\* globalContainerChanged.emit(): the signals connected to it in __init__
emitGlobalContainerChanged(S) ==
  LET S0 == Emit(S, "globalContainerChanged")
      S1 == Emit(S0, "activeMaterialChanged")
      S2 == Emit(S1, "activeVariantChanged")
      S3 == Emit(S2, "activeQualityChanged")
      S4 == Emit(S3, "activeQualityChangesGroupChanged")
      S5 == Emit(S4, "activeQualityGroupChanged")
      S6 == Emit(S5, "activeStackChanged")
  IN Emit(S6, "printerConnectedStatusChanged")
\* __emitChangedSignals
emitChangedSignals(S) ==
  LET S1 == Emit(S, "activeQualityChanged")
      S2 == Emit(S1, "activeVariantChanged")
      S3 == Emit(S2, "activeMaterialChanged")
      S4 == Emit(S3, "rootMaterialChanged")
  IN Emit(S4, "numberExtrudersEnabledChanged")

\* ------------------------------------------------- readers of the active stack
Global(S) == S.stacks[S.active]
Extruder(S, p) == S.stacks[S.active].ext[p]
Min(ps) == CHOOSE x \in ps : \A y \in ps : x <= y
\* getMetaDataEntry("quality_type") of the container in a quality slot
QualityTypeOf(c) == IF c = empty_quality_container THEN NotSupported ELSE c

\* QualityManager.getQualityGroups(global_stack): one group per quality type.  A
\* group has a node for every extruder whose material has a profile of that type
\* and is available when every used extruder has one.
UsedPositions(S, m) ==
  {p \in Positions : p < S.stacks[m].count /\ S.stacks[m].ext[p].enabled}
QualityGroupOf(S, m, qt) ==
  [machine |-> m, quality_type |-> qt,
   exts |-> {p \in Positions : qt \in MaterialQualityTypes(S.stacks[m].ext[p].material)},
   unresolved |-> {}]
IsAvailable(S, m, qt) ==
  \A p \in UsedPositions(S, m) : qt \in MaterialQualityTypes(S.stacks[m].ext[p].material)
getQualityGroup(S, m, qt) == IF qt \in QualityTypesOf(m) THEN QualityGroupOf(S, m, qt) ELSE NoGroup
\* QualityManager.getQualityChangesGroups: the extruders a group has a node for
QualityChangesExtruders(name) == IF name = "custom1" THEN Positions ELSE {0}

\* ------------------------------------------------- extruder bookkeeping
\* str(position): the key of an extruder stack in GlobalStack.extruders is the
\* decimal numeral of its position, here as its sequence of digits
RECURSIVE PositionKey(_)
PositionKey(p) == IF p < 10 THEN <<p>> ELSE Append(PositionKey(p \div 10), p % 10)
\* the order of Python strings: the first differing character decides, a proper
\* prefix comes first
KeyBefore(a, b) ==
  LET differing == {i \in 1 .. Min({Len(a), Len(b)}) : a[i] # b[i]}
  IN IF differing = {} THEN Len(a) < Len(b) ELSE a[Min(differing)] < b[Min(differing)]
\* the first of sorted(extruders.items()) among the positions ps
FirstSorted(ps) ==
  CHOOSE p \in ps : \A q \in ps \ {p} : KeyBefore(PositionKey(p), PositionKey(q))
\* updateDefaultExtruder
updateDefaultExtruder(S) ==
  IF S.active = None THEN S
  ELSE LET en == {p \in DOMAIN Global(S).ext : Extruder(S, p).enabled}
           new == IF en = {} THEN 0 ELSE FirstSorted(en)
       IN IF new # S.defExt THEN Emit([S EXCEPT !.defExt = new], "extruderChanged") ELSE S

\* an updateNumberExtrudersEnabled that counts every enabled extruder stack
\* (without the comparison with machine_extruder_count of line 1018)
updateNumberExtrudersEnabledAll(S) ==
  IF S.active = None THEN S
  ELSE LET n == Cardinality({p \in Positions : Extruder(S, p).enabled})
       IN IF Global(S).enabledCount # n
          THEN Emit([S EXCEPT !.stacks[S.active].enabledCount = n], "numberExtrudersEnabledChanged")
          ELSE S

\* updateNumberExtrudersEnabled
updateNumberExtrudersEnabled(S) ==
  IF S.active = None THEN S
  ELSE LET n == Cardinality({p \in Positions : Extruder(S, p).enabled /\ p < Global(S).count})
       IN IF Global(S).enabledCount # n
          THEN Emit([S EXCEPT !.stacks[S.active].enabledCount = n], "numberExtrudersEnabledChanged")
          ELSE S

\* ------------------------------------------------- quality selection
\* the loop of _setEmptyQuality over the extruders
RECURSIVE emptyQualityLoop(_, _)
emptyQualityLoop(S, ps) ==
  IF ps = {} THEN S
  ELSE LET p == Min(ps)
           S1 == Write(S, S.active, p, "quality", empty_quality_container)
           S2 == Write(S1, S.active, p, "qualityChanges", empty_quality_changes_container)
       IN emptyQualityLoop(S2, ps \ {p})

\* a _setEmptyQuality that rejects the call and changes nothing
setEmptyQualityNoOp(S) == S

\* _setEmptyQuality
setEmptyQuality(S) ==
  IF S.active = None THEN S
  ELSE LET S1 == [S EXCEPT !.curQG = NoGroup, !.curQCG = None]
           S2 == Write(S1, S.active, GlobalPos, "quality", empty_quality_container)
           S3 == Write(S2, S.active, GlobalPos, "qualityChanges", empty_quality_changes_container)
           S4 == emptyQualityLoop(S3, Positions)
       IN Emit(Emit(S4, "activeQualityGroupChanged"), "activeQualityChangesGroupChanged")

\* the loop of _setQualityGroup over quality_group.nodes_for_extruders
RECURSIVE qualityGroupLoop(_, _, _, _)
qualityGroupLoop(S, g, ps, empty_quality_changes) ==
  IF ps = {} THEN S
  ELSE LET p == Min(ps)
           S1 == Write(S, S.active, p, "quality", g.quality_type)
           S2 == IF empty_quality_changes
                 THEN Write(S1, S.active, p, "qualityChanges", empty_quality_changes_container)
                 ELSE S1
       IN qualityGroupLoop(S2, g, ps \ {p}, empty_quality_changes)

\* a _setQualityGroup that tests the global node only (without lines 1163-1165)
setQualityGroupGlobalTestOnly(S, g, empty_quality_changes) ==
  IF S.active = None THEN S
  ELSE IF g = NoGroup THEN setEmptyQuality(S)
  ELSE IF QualityContainer(g.machine, g.quality_type) = None THEN S
  ELSE LET S1 == [S EXCEPT !.curQG = g,
                           !.curQCG = IF empty_quality_changes THEN None ELSE @]
           S2 == Write(S1, S.active, GlobalPos, "quality", QualityContainer(g.machine, g.quality_type))
           S3 == IF empty_quality_changes
                 THEN Write(S2, S.active, GlobalPos, "qualityChanges", empty_quality_changes_container)
                 ELSE S2
           S4 == qualityGroupLoop(S3, g, g.exts \ g.unresolved, empty_quality_changes)
       IN Emit(Emit(S4, "activeQualityGroupChanged"), "activeQualityChangesGroupChanged")

\* _setQualityGroup(quality_group, empty_quality_changes)
setQualityGroup_(S, g, empty_quality_changes) ==
  IF S.active = None THEN S
  ELSE IF g = NoGroup THEN setEmptyQuality(S)
  ELSE IF QualityContainer(g.machine, g.quality_type) = None THEN S
  ELSE IF g.unresolved # {} THEN S
  ELSE LET S1 == [S EXCEPT !.curQG = g,
                           !.curQCG = IF empty_quality_changes THEN None ELSE @]
           S2 == Write(S1, S.active, GlobalPos, "quality", QualityContainer(g.machine, g.quality_type))
           S3 == IF empty_quality_changes
                 THEN Write(S2, S.active, GlobalPos, "qualityChanges", empty_quality_changes_container)
                 ELSE S2
           S4 == qualityGroupLoop(S3, g, g.exts, empty_quality_changes)
       IN Emit(Emit(S4, "activeQualityGroupChanged"), "activeQualityChangesGroupChanged")

\* the loop of _setQualityChangesGroup over the extruders of the active machine
RECURSIVE qualityChangesLoop(_, _, _, _)
qualityChangesLoop(S, name, g, ps) ==
  IF ps = {} THEN S
  ELSE LET p == Min(ps)
           qc == IF p \in QualityChangesExtruders(name) THEN name
                 ELSE empty_quality_changes_container
           q == IF g # NoGroup /\ p \in g.exts THEN g.quality_type ELSE empty_quality_container
           S1 == Write(S, S.active, p, "quality", q)
           S2 == Write(S1, S.active, p, "qualityChanges", qc)
       IN qualityChangesLoop(S2, name, g, ps \ {p})

\* a _setQualityChangesGroup that leaves the group's quality_type as it is
setQualityChangesGroupKeepingType(S, name) ==
  IF S.active = None THEN S
  ELSE LET quality_type == S.qcType[name]
           g == IF quality_type # NotSupported
                THEN getQualityGroup(S, S.active, quality_type) ELSE NoGroup
           q == IF g # NoGroup /\ QualityContainer(g.machine, g.quality_type) # None
                THEN QualityContainer(g.machine, g.quality_type) ELSE empty_quality_container
           S1 == Write(S, S.active, GlobalPos, "quality", q)
           S2 == Write(S1, S.active, GlobalPos, "qualityChanges", name)
           S3 == qualityChangesLoop(S2, name, g, Positions)
           S4 == [S3 EXCEPT !.curQG = g, !.curQCG = name]
       IN Emit(Emit(S4, "activeQualityGroupChanged"), "activeQualityChangesGroupChanged")

\* _setQualityChangesGroup, with _fixQualityChangesGroupToNotSupported
setQualityChangesGroup_(S, name) ==
  IF S.active = None THEN S
  ELSE LET quality_type == S.qcType[name]
           g == IF quality_type # NotSupported
                THEN getQualityGroup(S, S.active, quality_type) ELSE NoGroup
           S0 == IF quality_type # NotSupported /\ g = NoGroup
                 THEN [S EXCEPT !.qcType[name] = NotSupported] ELSE S
           q == IF g # NoGroup /\ QualityContainer(g.machine, g.quality_type) # None
                THEN QualityContainer(g.machine, g.quality_type) ELSE empty_quality_container
           S1 == Write(S0, S.active, GlobalPos, "quality", q)
           S2 == Write(S1, S.active, GlobalPos, "qualityChanges", name)
           S3 == qualityChangesLoop(S2, name, g, Positions)
           S4 == [S3 EXCEPT !.curQG = g, !.curQCG = name]
       IN Emit(Emit(S4, "activeQualityGroupChanged"), "activeQualityChangesGroupChanged")

\* a variant of hasNotSupportedQuality that looks at the quality group only
hasNotSupportedQualityGroupOnly(S) == S.curQG = NoGroup
\* hasNotSupportedQuality
hasNotSupportedQuality(S) == S.curQG = NoGroup /\ S.curQCG = None

\* ------------------------------------------------- variant and material
\* _setVariantNode (the node's container resolves)
setVariantNode(S, p, node) ==
  IF node = None \/ S.active = None THEN S
  ELSE Emit(Write(S, S.active, p, "variant", node), "activeVariantChanged")

\* _setGlobalVariant
setGlobalVariant_(S, node) ==
  IF S.active = None THEN S
  ELSE Write(S, S.active, GlobalPos, "variant",
             IF node = None THEN empty_variant_container ELSE node)

\* _setMaterial
setMaterial_(S, p, node) ==
  IF S.active = None THEN S
  ELSE LET S1 == IF node # None THEN Write(S, S.active, p, "material", node)
                 ELSE Write(S, S.active, p, "material", empty_material_container)
           root_material_id == IF node # None THEN BaseFile(node) ELSE None
       IN IF root_material_id # S.rootMat[p]
          THEN Emit([S1 EXCEPT !.rootMat[p] = root_material_id], "rootMaterialChanged")
          ELSE S1

\* activeMaterialsCompatible
activeMaterialsCompatible(S) ==
  IF S.active # None /\ HasMaterials(S.active)
  THEN \A p \in Positions : Extruder(S, p).enabled => Compatible(Extruder(S, p).material)
  ELSE TRUE

\* a reconciliation that takes the last of the available quality types
updateQualityWithMaterialLast(S) ==
  IF S.active = None THEN S
  ELSE LET current_quality_type == IF S.curQG # NoGroup THEN S.curQG.quality_type ELSE None
           available_quality_types == {qt \in QualityTypesOf(S.active) : IsAvailable(S, S.active, qt)}
           quality_type == IF "normal" \in available_quality_types THEN "normal"
                           ELSE IF "fine" \in available_quality_types THEN "fine" ELSE "draft"
       IN IF ~activeMaterialsCompatible(S)
          THEN (IF current_quality_type # None THEN setEmptyQuality(S) ELSE S)
          ELSE IF available_quality_types = {}
          THEN (IF S.curQCG = None THEN setEmptyQuality(S) ELSE S)
          ELSE IF current_quality_type \in available_quality_types
          THEN setQualityGroup_(S, QualityGroupOf(S, S.active, current_quality_type), FALSE)
          ELSE setQualityGroup_(S, QualityGroupOf(S, S.active, quality_type), TRUE)

\* a reconciliation that forces the empty quality whenever no quality type is
\* available (without the test of line 1294)
updateQualityWithMaterialForcing(S) ==
  IF S.active = None THEN S
  ELSE LET current_quality_type == IF S.curQG # NoGroup THEN S.curQG.quality_type ELSE None
           available_quality_types == {qt \in QualityTypesOf(S.active) : IsAvailable(S, S.active, qt)}
           preferred_quality_type == PreferredQualityType(S.active)
           smallest == IF "draft" \in available_quality_types THEN "draft"
                       ELSE IF "fine" \in available_quality_types THEN "fine" ELSE "normal"
           quality_type == IF preferred_quality_type \in available_quality_types
                           THEN preferred_quality_type ELSE smallest
       IN IF ~activeMaterialsCompatible(S)
          THEN (IF current_quality_type # None THEN setEmptyQuality(S) ELSE S)
          ELSE IF available_quality_types = {}
          THEN setEmptyQuality(S)
          ELSE IF current_quality_type \in available_quality_types
          THEN setQualityGroup_(S, QualityGroupOf(S, S.active, current_quality_type), FALSE)
          ELSE setQualityGroup_(S, QualityGroupOf(S, S.active, quality_type), TRUE)

\* a reconciliation that keeps the quality-changes selection when it has to
\* move to another quality type (line 1313 with empty_quality_changes = False)
updateQualityWithMaterialKeepingChanges(S) ==
  IF S.active = None THEN S
  ELSE LET current_quality_type == IF S.curQG # NoGroup THEN S.curQG.quality_type ELSE None
           available_quality_types == {qt \in QualityTypesOf(S.active) : IsAvailable(S, S.active, qt)}
           preferred_quality_type == PreferredQualityType(S.active)
           smallest == IF "draft" \in available_quality_types THEN "draft"
                       ELSE IF "fine" \in available_quality_types THEN "fine" ELSE "normal"
           quality_type == IF preferred_quality_type \in available_quality_types
                           THEN preferred_quality_type ELSE smallest
       IN IF ~activeMaterialsCompatible(S)
          THEN (IF current_quality_type # None THEN setEmptyQuality(S) ELSE S)
          ELSE IF available_quality_types = {}
          THEN (IF S.curQCG = None THEN setEmptyQuality(S) ELSE S)
          ELSE IF current_quality_type \in available_quality_types
          THEN setQualityGroup_(S, QualityGroupOf(S, S.active, current_quality_type), FALSE)
          ELSE setQualityGroup_(S, QualityGroupOf(S, S.active, quality_type), FALSE)

\* _updateQualityWithMaterial
updateQualityWithMaterial(S) ==
  IF S.active = None THEN S
  ELSE LET current_quality_type == IF S.curQG # NoGroup THEN S.curQG.quality_type ELSE None
           available_quality_types == {qt \in QualityTypesOf(S.active) : IsAvailable(S, S.active, qt)}
           preferred_quality_type == PreferredQualityType(S.active)
           smallest == IF "draft" \in available_quality_types THEN "draft"
                       ELSE IF "fine" \in available_quality_types THEN "fine" ELSE "normal"
           quality_type == IF preferred_quality_type \in available_quality_types
                           THEN preferred_quality_type ELSE smallest
       IN IF ~activeMaterialsCompatible(S)
          THEN (IF current_quality_type # None THEN setEmptyQuality(S) ELSE S)
          ELSE IF available_quality_types = {}
          THEN (IF S.curQCG = None THEN setEmptyQuality(S) ELSE S)
          ELSE IF current_quality_type \in available_quality_types
          THEN setQualityGroup_(S, QualityGroupOf(S, S.active, current_quality_type), FALSE)
          ELSE setQualityGroup_(S, QualityGroupOf(S, S.active, quality_type), TRUE)

\* an update that moves a material that is offered for the nozzle to another
\* family the nozzle offers
updateMaterialWithVariantOther(S, p) ==
  LET current_material_base_name == BaseFile(Extruder(S, p).material)
      current_nozzle_name == IF Extruder(S, p).variant # empty_variant_container
                             THEN Extruder(S, p).variant ELSE None
      candidate_materials == getAvailableMaterials(current_nozzle_name)
      other == {c \in candidate_materials : BaseFile(c) # current_material_base_name}
  IN IF other = {} THEN setMaterial_(S, p, None)
     ELSE setMaterial_(S, p, CHOOSE c \in other : TRUE)

\* updateMaterialWithVariant for one position
updateMaterialWithVariant1(S, p) ==
  LET current_material_base_name == BaseFile(Extruder(S, p).material)
      current_nozzle_name == IF Extruder(S, p).variant # empty_variant_container
                             THEN Extruder(S, p).variant ELSE None
      candidate_materials == getAvailableMaterials(current_nozzle_name)
      same == {c \in candidate_materials : BaseFile(c) = current_material_base_name}
      material_node == getDefaultMaterial(S.active, current_nozzle_name)
  IN IF candidate_materials = {} THEN setMaterial_(S, p, None)
     ELSE IF same # {} THEN setMaterial_(S, p, CHOOSE c \in same : TRUE)
     ELSE IF material_node # None THEN setMaterial_(S, p, material_node)
     ELSE S

RECURSIVE updateMaterialLoop(_, _)
updateMaterialLoop(S, ps) ==
  IF ps = {} THEN S
  ELSE updateMaterialLoop(updateMaterialWithVariant1(S, Min(ps)), ps \ {Min(ps)})

\* updateMaterialWithVariant(position); position_list is the one position, or
\* every key of extruders when position is None
updateMaterialWithVariant(S, position_list) ==
  IF S.active = None THEN S ELSE updateMaterialLoop(S, position_list)
\* ------------------------------------------------- machine activation
\* _onGlobalContainerChanged, lines 224-240: disconnect the stacks of
\* self._global_container_stack and of the active extruder stacks
disconnectStacks(S) ==
  IF S.active # None
  THEN [S EXCEPT !.connected = @ \ ({<<S.active, GlobalPos>>} \cup getActiveExtruderStacks(S))]
  ELSE S
\* lines 243-246
takeGlobalStack(S) ==
  IF S.app # None
  THEN updateNumberExtrudersEnabled(updateDefaultExtruder([S EXCEPT !.active = S.app]))
  ELSE [S EXCEPT !.active = S.app]
\* lines 250-271.  (The model's global stacks hold a build plate or the empty
\* variant and no material, so lines 258-266 write nothing.)
connectStacks(S) ==
  IF S.active # None
  THEN [S EXCEPT !.pref = S.active,
                 !.connected = @ \cup {<<S.active, GlobalPos>>} \cup getActiveExtruderStacks(S)]
  ELSE S
\* _onGlobalContainerChanged
onGlobalContainerChanged(S) ==
  Emit(connectStacks(emitGlobalContainerChanged(takeGlobalStack(disconnectStacks(S)))),
       "activeQualityGroupChanged")

\* Application.setGlobalContainerStack: globalContainerStackChanged is emitted
\* when the stack changes; __init__ connected it to _onGlobalContainerChanged.
setGlobalContainerStack(S, m) ==
  IF S.app # m THEN onGlobalContainerChanged([S EXCEPT !.app = m]) ELSE S

\* the first value of the quality_groups dict
FirstQualityType == QualityTypeOrder[1]

\* _initMachineState, lines 332-344: the preferred group, else the first one
fallbackQuality(S) ==
  setQualityGroup_(S, IF PreferredQualityType(S.active) \in QualityTypesOf(S.active)
                      THEN QualityGroupOf(S, S.active, PreferredQualityType(S.active))
                      ELSE QualityGroupOf(S, S.active, FirstQualityType), TRUE)
\* _initMachineState, lines 306-344
restoreQuality(S) ==
  LET quality_type == QualityTypeOf(Global(S).quality)
      global_quality_changes_name == Global(S).qualityChanges
  IN IF global_quality_changes_name # empty_quality_changes_container
     THEN (IF global_quality_changes_name \in QualityChangesNames
           THEN setQualityChangesGroup_(S, global_quality_changes_name)
           ELSE fallbackQuality(S))
     ELSE (IF quality_type \in QualityTypesOf(S.active)
           THEN setQualityGroup_(S, QualityGroupOf(S, S.active, quality_type), TRUE)
           ELSE fallbackQuality(S))
\* _initMachineState(global_stack), global_stack being self._global_container_stack
initMachineState(S) ==
  restoreQuality(updateMaterialLoop(
    [S EXCEPT !.rootMat = [p \in Positions |-> BaseFile(Extruder(S, p).material)]], Positions))

\* setActiveMachine, lines 373-376
selectDefaultExtruder(S) == [S EXCEPT !.activeExt = S.defExt]
\* setActiveMachine, lines 367-378
activate(S, stack_id) ==
  emitChangedSignals(selectDefaultExtruder(updateDefaultExtruder(onGlobalContainerChanged(
    initMachineState(setGlobalContainerStack([S EXCEPT !.active = stack_id], stack_id))))))
\* a variant of setActiveMachine without the validation of lines 362-365
setActiveMachineUnvalidated(S, stack_id) ==
  IF stack_id \notin S.registry THEN S ELSE activate(S, stack_id)
\* setActiveMachine(stack_id)
setActiveMachineFrom(S, stack_id) ==
  IF stack_id \notin S.registry THEN S
  ELSE IF ~S.stacks[stack_id].valid THEN [S EXCEPT !.faulty = @ \cup {stack_id}]
  ELSE activate(S, stack_id)
setActiveMachine(S, stack_id) == setActiveMachineFrom(Emit(S, "blurSettings"), stack_id)

\* the first element of a registry listing
First(order, ms) == order[Min({i \in DOMAIN order : order[i] \in ms})]

\* removeMachine, lines 797-801
activateOther(S, machine_id, order) ==
  IF S.active # None /\ S.active = machine_id /\ S.registry \ {machine_id} # {}
  THEN setActiveMachine(S, First(order, S.registry \ {machine_id}))
  ELSE S
\* removeMachine, lines 803-808: the stack leaves the registry
removeContainer(S, machine_id, was_active) ==
  [S EXCEPT !.registry = @ \ {machine_id},
            !.deletions = Append(@, [id |-> machine_id, active |-> S.active,
                                     registry |-> S.registry, was_active |-> was_active])]
\* removeMachine(machine_id); `order` is the order in which the registry lists
\* its stacks.
RECURSIVE removeMachine(_, _, _)
\* a removal of the hidden machines that goes on with any machine left in the
\* registry, whatever its group id
removeHiddenEveryMachine(S, machine_id, order) ==
  IF S.registry # {} THEN removeMachine(S, First(order, S.registry), order) ELSE S
\* removeMachine, lines 810-817: the other machines of the group go as well
removeHidden(S, machine_id, order) ==
  IF GroupId(machine_id) # None /\ {m \in S.registry : GroupId(m) = GroupId(machine_id)} # {}
  THEN removeMachine(S, First(order, {m \in S.registry : GroupId(m) = GroupId(machine_id)}), order)
  ELSE S
\* removeMachine, line 803: findContainerStacksMetadata(id = machine_id)[0]
\* indexes an empty list when the registry has no stack of that id
findMetadata(S, machine_id) ==
  IF machine_id \in S.registry THEN S ELSE [S EXCEPT !.raised = "IndexError"]
\* removeMachine, lines 803-817, once the other machine is active
removeFound(S, machine_id, was_active, order) ==
  IF findMetadata(S, machine_id).raised # None THEN findMetadata(S, machine_id)
  ELSE removeHidden(removeContainer(S, machine_id, was_active), machine_id, order)
removeMachine(S, machine_id, order) ==
  removeFound(activateOther(S, machine_id, order), machine_id,
              S.active # None /\ S.active = machine_id, order)

\* ------------------------------------------------- remote configuration
\* getMachine(definition_id, metadata_filter) of switchPrinterType: the machines
\* of the active machine's group with that definition
getMachine(S, machine_name) ==
  {m \in S.registry : DefinitionName(m) = machine_name /\ GroupId(m) = GroupId(S.active)}

\* switchPrinterType(machine_name), for a machine instance that exists
switchPrinterType(S, machine_name) ==
  IF S.active = None \/ DefinitionName(S.active) = machine_name THEN S
  ELSE setActiveMachine(S, CHOOSE m \in getMachine(S, machine_name) : TRUE)

hasHotend(ec) == ec.hotendID # None /\ ec.hotendID # ""
hasMaterial(ec) == ec.guid # None /\ ec.guid # ""
\* a variant of lines 1404-1411 that needs both the nozzle and the material missing
extrudersToDisableBothMissing(configuration) ==
  {p \in DOMAIN configuration.extruders :
     ~hasHotend(configuration.extruders[p]) /\ ~hasMaterial(configuration.extruders[p])}
\* lines 1404-1411: the reported extruders to disable
extrudersToDisable(configuration) ==
  {p \in DOMAIN configuration.extruders :
     ~hasHotend(configuration.extruders[p]) \/ ~hasMaterial(configuration.extruders[p])}
\* a variant of lines 1413-1415 that exempts no extruder
exemptNone(S, extruders_to_disable) == extruders_to_disable
\* lines 1413-1415: with as many of them as the machine has extruders, the first stays
exemptFirst(S, extruders_to_disable) ==
  IF Cardinality(extruders_to_disable) = Cardinality(DOMAIN Global(S).ext)
  THEN extruders_to_disable \ {Min(extruders_to_disable)}
  ELSE extruders_to_disable

\* lines 1417-1445: one reported extruder
applyExtruderConfiguration(S, position, ec, extruders_to_disable) ==
  IF position \in extruders_to_disable
  THEN setEnabled(S, S.active, position, FALSE)
  ELSE LET variant_container_node == getVariantNode(ec.hotendID)
           material_container_node == getMaterialNodeByType(ec.hotendID, ec.guid)
           S1 == IF variant_container_node # None
                 THEN setVariantNode(S, position, variant_container_node)
                 ELSE Write(S, S.active, position, "variant", empty_variant_container)
           S2 == IF material_container_node # None
                 THEN setMaterial_(S1, position, material_container_node)
                 ELSE Write(S1, S.active, position, "material", empty_material_container)
           S3 == setEnabled(S2, S.active, position, TRUE)
       IN updateMaterialWithVariant(S3, {position})

RECURSIVE applyExtrudersLoop(_, _, _, _)
applyExtrudersLoop(S, configuration, ps, extruders_to_disable) ==
  IF ps = {} THEN S
  ELSE LET p == Min(ps)
       IN applyExtrudersLoop(
            applyExtruderConfiguration(S, p, configuration.extruders[p], extruders_to_disable),
            configuration, ps \ {p}, extruders_to_disable)

\* applyRemoteConfiguration, lines 1450-1457
applyBuildplate(S, configuration) ==
  IF configuration.buildplate # None /\ getBuildplateVariantNode(configuration.buildplate) # None
  THEN setGlobalVariant_(S, getBuildplateVariantNode(configuration.buildplate))
  ELSE Write(S, S.active, GlobalPos, "variant", empty_variant_container)
\* applyRemoteConfiguration, lines 1397-1473, after switchPrinterType
applyConfiguration(S, configuration) ==
  LET extruders_to_disable == exemptFirst(S, extrudersToDisable(configuration))
      need_to_show_message == DOMAIN configuration.extruders \cap extruders_to_disable # {}
  IN [updateQualityWithMaterial(applyBuildplate(
        updateNumberExtrudersEnabled(updateDefaultExtruder(
          applyExtrudersLoop([S EXCEPT !.toDisable = extrudersToDisable(configuration)],
                             configuration, DOMAIN configuration.extruders,
                             extruders_to_disable))),
        configuration))
      EXCEPT !.notice = need_to_show_message]
\* applyRemoteConfiguration(configuration)
applyRemoteConfiguration(S, configuration) ==
  IF S.active = None THEN S
  ELSE CHOOSE R \in {endPostponeSignals(applyConfiguration(switched, configuration)) :
                      switched \in {switchPrinterType(postponeSignals(Emit(S, "blurSettings")),
                                                      configuration.printerType)}} : TRUE

\* ------------------------------------------------- extruder enablement
\* The stacks of the model have one setting of type "extruder".  The instances
\* a container holds for it are a set of values: empty, or the one value.  The
\* global stack's userChanges is the field user, a quality-changes container
\* is looked up in qcExt.
extruderSettingOf(S, container) ==
  IF container \in DOMAIN S.qcExt THEN S.qcExt[container] ELSE {}
\* getIncompatibleSettingsOnEnabledExtruders, lines 899-910: the container has
\* an instance of the setting that names no enabled extruder of the machine
isIncompatibleSetting(S, instances) ==
  \E old_value \in instances :
    /\ old_value >= 0
    /\ \/ old_value >= Global(S).count
       \/ ~Extruder(S, old_value).enabled
\* correctExtruderSettings, lines 917-918: userChanges.removeInstance
removeIncompatibleUserChanges(S) ==
  IF isIncompatibleSetting(S, Global(S).user)
  THEN Logged([S EXCEPT !.stacks[S.active].user = {}],
              Ev("write", S.active, GlobalPos, "userChanges"))
  ELSE S
\* a scrub that deletes the value from the quality-changes container instead
shadowQualityChangesByRemoval(S) ==
  IF isIncompatibleSetting(S, extruderSettingOf(S, Global(S).qualityChanges))
  THEN [S EXCEPT !.qcExt[Global(S).qualityChanges] = {}, !.notice = TRUE]
  ELSE S
\* correctExtruderSettings, lines 919-927: userChanges.setProperty and the Message
shadowQualityChanges(S) ==
  IF isIncompatibleSetting(S, extruderSettingOf(S, Global(S).qualityChanges))
  THEN Logged([S EXCEPT !.stacks[S.active].user = {S.defExt}, !.notice = TRUE],
              Ev("write", S.active, GlobalPos, "userChanges"))
  ELSE S
\* correctExtruderSettings
correctExtruderSettings(S) ==
  IF S.active = None THEN S
  ELSE shadowQualityChanges(removeIncompatibleUserChanges(S))

\* setExtruderEnabled, lines 1056-1058
switchFromDisabled(S, position, enabled) ==
  IF ~enabled /\ position = S.activeExt THEN [S EXCEPT !.activeExt = S.defExt] ELSE S
\* setExtruderEnabled(position, enabled), for a position the machine has
setExtruderEnabled(S, position, enabled) ==
  IF S.active = None THEN S
  ELSE Emit(Emit(Emit(updateQualityWithMaterial(switchFromDisabled(
         correctExtruderSettings(updateNumberExtrudersEnabled(updateDefaultExtruder(
           setEnabled(S, S.active, position, enabled)))), position, enabled)),
         "extruderChanged"), "activeQualityGroupChanged"), "activeMaterialChanged")

\* a count change that also clears the extruder stacks at and above the new count
setExtruderCountTrimming(S, extruder_count) ==
  Logged([S EXCEPT !.stacks[S.active].count = extruder_count,
                   !.stacks[S.active].ext =
                      [p \in Positions |->
                         IF p >= extruder_count
                         THEN [@[p] EXCEPT !.variant = empty_variant_container,
                                           !.material = empty_material_container,
                                           !.enabled = FALSE]
                         ELSE @[p]]],
         Ev("write", S.active, GlobalPos, "machine_extruder_count"))

\* setActiveMachineExtruderCount, line 945: the definition-changes container
\* takes the new machine_extruder_count (a property, no container is swapped)
setExtruderCount(S, extruder_count) ==
  Logged([S EXCEPT !.stacks[S.active].count = extruder_count],
         Ev("write", S.active, GlobalPos, "machine_extruder_count"))
\* setActiveMachineExtruderCount, line 964: ExtruderManager.setActiveExtruderIndex(0)
setActiveExtruderIndex(S, index) ==
  IF S.activeExt # index
  THEN Logged([S EXCEPT !.activeExt = index], Ev("emit", "", GlobalPos, "activeExtruderChanged"))
  ELSE S
\* a variant of setActiveMachineExtruderCount without the test of lines 942-943
setActiveMachineExtruderCountAlways(S, extruder_count) ==
  IF S.active = None THEN S
  ELSE onGlobalContainerChanged(setActiveExtruderIndex(correctExtruderSettings(
         updateNumberExtrudersEnabled(updateDefaultExtruder(
           setExtruderCount(S, extruder_count)))), 0))
\* setActiveMachineExtruderCount(extruder_count); every machine of the model
\* has a definition-changes container. The scene has no objects and the global
\* user container no per-extruder values, so lines 951-983 find nothing to move;
\* line 986 emits the application's globalContainerStackChanged.
setActiveMachineExtruderCount(S, extruder_count) ==
  IF S.active = None THEN S
  ELSE IF extruder_count = Global(S).count THEN S
  ELSE onGlobalContainerChanged(setActiveExtruderIndex(correctExtruderSettings(
         updateNumberExtrudersEnabled(updateDefaultExtruder(
           setExtruderCount(S, extruder_count)))), 0))

\* ------------------------------------------------- public setters
\* setGlobalVariant(container_node)
setGlobalVariant(S, node) ==
  LET S0 == postponeSignals(Emit(S, "blurSettings"))
      S1 == setGlobalVariant_(S0, node)
      S2 == updateMaterialWithVariant(S1, Positions)
  IN endPostponeSignals(updateQualityWithMaterial(S2))

\* setMaterial(position, container_node) on the active machine
setMaterial(S, position, node) ==
  LET S0 == postponeSignals(Emit(S, "blurSettings"))
      S1 == setMaterial_(S0, position, node)
  IN endPostponeSignals(updateQualityWithMaterial(S1))

\* setMaterial(position, container_node, global_stack) for another stack
\* than the active one (lines 1508-1510)
setMaterialOf(S, global_stack, position, node) ==
  Write(S, global_stack, position, "material", node)

\* setVariant(position, container_node)
setVariant(S, position, node) ==
  LET S0 == postponeSignals(Emit(S, "blurSettings"))
      S1 == setVariantNode(S0, position, node)
      S2 == updateMaterialWithVariant(S1, {position})
  IN endPostponeSignals(updateQualityWithMaterial(S2))

\* a setQualityGroup that deselects a group that is chosen again
setQualityGroupToggling(S, g) ==
  endPostponeSignals(setQualityGroup_(postponeSignals(Emit(S, "blurSettings")),
                                      IF S.curQG = g THEN NoGroup ELSE g, TRUE))

\* setQualityGroup(quality_group) on the active machine
setQualityGroup(S, g) ==
  endPostponeSignals(setQualityGroup_(postponeSignals(Emit(S, "blurSettings")), g, TRUE))

\* the loop of setQualityGroup over the extruders of another stack than the
\* active one (lines 1564-1569)
RECURSIVE otherQualityLoop(_, _, _, _)
otherQualityLoop(S, global_stack, g, ps) ==
  IF ps = {} THEN S
  ELSE LET p == Min(ps)
           quality_container == IF p \in g.exts \ g.unresolved THEN g.quality_type
                                ELSE empty_quality_container
       IN otherQualityLoop(Write(S, global_stack, p, "quality", quality_container),
                           global_stack, g, ps \ {p})
\* setQualityGroup(quality_group, global_stack = global_stack) for another stack
\* than the active one (lines 1555-1570); the group is one whose global node
\* resolves to a container
setQualityGroupOf(S, global_stack, g) ==
  IF g = NoGroup THEN S
  ELSE otherQualityLoop(Write(S, global_stack, GlobalPos, "quality",
                              QualityContainer(g.machine, g.quality_type)),
                        global_stack, g, Positions)

\* setQualityChangesGroup(quality_changes_group)
setQualityChangesGroup(S, name) ==
  endPostponeSignals(setQualityChangesGroup_(postponeSignals(Emit(S, "blurSettings")), name))

\* setQualityGroupByQualityType, line 1548: quality_group_dict[quality_type]
\* raises KeyError for a quality type the machine has no group of
lookupQualityGroup(S, quality_type) ==
  IF quality_type \in QualityTypesOf(S.active) THEN S ELSE [S EXCEPT !.raised = "KeyError"]
\* setQualityGroupByQualityType(quality_type)
setQualityGroupByQualityType(S, quality_type) ==
  IF S.active = None THEN S
  ELSE IF lookupQualityGroup(S, quality_type).raised # None
  THEN lookupQualityGroup(S, quality_type)
  ELSE setQualityGroup(S, getQualityGroup(S, S.active, quality_type))

\* resetToUseDefaultQuality, lines 1600-1601: userChanges.clear() on the global
\* stack and on every extruder stack (the model keeps user values in the
\* global stack only)
clearUserChanges(S) ==
  Logged([S EXCEPT !.stacks[S.active].user = {}],
         Ev("write", S.active, GlobalPos, "userChanges"))
\* resetToUseDefaultQuality()
resetToUseDefaultQuality(S) ==
  IF S.active = None THEN S
  ELSE endPostponeSignals(clearUserChanges(setQualityGroup_(postponeSignals(S), S.curQG, TRUE)))

\* ------------------------------------------------------------------ inputs
\* A quality group as the caller of setQualityGroup holds it: the nodes of the
\* extruders in `unresolved` no longer resolve to a container.
StaleGroup(g, unresolved) == [g EXCEPT !.unresolved = unresolved \cap g.exts]
ExtruderConfigurations == [hotendID : {"", "AA"}, guid : {"", "guid_pla"}]
\* a printer reports its extruders from position 0 on
Configurations ==
  UNION {[printerType : {"um3", "ums5"},
          extruders : [0 .. (k - 1) -> ExtruderConfigurations],
          buildplate : {None}] : k \in {1, MaxExtruders}}
NoConfiguration == [printerType |-> None, extruders |-> <<>>, buildplate |-> None]
Orders == {o \in [1 .. Cardinality(Machines) -> Machines] : \A i, j \in DOMAIN o : o[i] = o[j] => i = j}

\* ------------------------------------------------------------------- init
\* the first extruder holds PLA, the others ABS (which has no "normal" profile)
StoredExtruder(p, qc) ==
  [variant |-> "AA", material |-> IF p = 0 THEN "pla_AA" ELSE "abs_AA",
   quality |-> "normal", qualityChanges |-> qc, enabled |-> TRUE]
\* a machine with several extruders in use stores a user value naming its last one
StoredStack(valid, count, qc) ==
  [valid |-> valid, variant |-> empty_variant_container, quality |-> "normal",
   qualityChanges |-> qc, count |-> count, enabledCount |-> count,
   user |-> IF count > 1 THEN {count - 1} ELSE {},
   ext |-> [p \in Positions |-> StoredExtruder(p, qc)]]
\* machine A as stored: with the custom profile its first extruder was disabled
StoredA(qc) ==
  IF qc = "custom1"
  THEN [StoredStack(TRUE, MaxExtruders, qc) EXCEPT !.ext[0].enabled = FALSE,
                                                   !.enabledCount = MaxExtruders - 1]
  ELSE StoredStack(TRUE, MaxExtruders, qc)

\* machine B as stored, with a single extruder in use; in the second case its
\* quality slots hold a profile of a type the catalog has given up ("high")
StoredB(qc) ==
  IF qc = "custom1"
  THEN StoredStack(TRUE, 1, empty_quality_changes_container)
  ELSE [StoredStack(TRUE, 1, empty_quality_changes_container) EXCEPT
          !.quality = "high",
          !.ext = [p \in Positions |-> [@[p] EXCEPT !.quality = "high"]]]

Init ==
  /\ registry = Machines
  /\ app = None /\ active = None
  /\ \E qc \in {"custom1", "gone"} :
       stacks = [m \in Machines |->
                   CASE m = "A" -> StoredA(qc)
                     [] m = "B" -> StoredB(qc)
                     [] OTHER -> StoredStack(FALSE, MaxExtruders, empty_quality_changes_container)]
  /\ curQG = NoGroup /\ curQCG = None
  /\ rootMat = [p \in {} |-> None]
  /\ defExt = 0 /\ activeExt = 0
  /\ connected = {} /\ timer = FALSE
  /\ pref = "" /\ faulty = {}
  /\ qcType = [n \in QualityChangesNames |-> IF n = "custom1" THEN "normal" ELSE "fine"]
  /\ qcExt = [n \in QualityChangesNames |-> IF n = "custom1" THEN {1} ELSE {}]
  /\ config = NoPrinterConfiguration
  /\ raised = None
  /\ log = <<>> /\ notice = FALSE /\ toDisable = {} /\ deletions = <<>>
  /\ last = [op |-> "init", m |-> None, pos |-> GlobalPos, prev |-> None,
             cfg |-> NoConfiguration, arg |-> None]
  /\ ops = 0

Called(name, m, pos, cfg) ==
  [op |-> name, m |-> m, pos |-> pos, prev |-> active, cfg |-> cfg, arg |-> None]

\* ---------------------------------------------------------------- actions
SetActiveMachine(m) ==
  Commit(setActiveMachine(State, m), Called("setActiveMachine", m, GlobalPos, NoConfiguration))

RemoveMachine(m, order) ==
  /\ Commit(removeMachine(State, m, order), Called("removeMachine", m, GlobalPos, NoConfiguration))

ApplyRemoteConfiguration(configuration) ==
  /\ active # None
  /\ \/ configuration.printerType = DefinitionName(active)
     \/ getMachine(State, configuration.printerType) # {}
  /\ Commit(applyRemoteConfiguration(State, configuration),
            Called("applyRemoteConfiguration", None, GlobalPos, configuration))

SetGlobalVariant(node) ==
  /\ active # None
  /\ Commit(setGlobalVariant(State, node), Called("setGlobalVariant", None, GlobalPos, NoConfiguration))

SetMaterial(p, node) ==
  /\ active # None
  /\ Commit(setMaterial(State, p, node), Called("setMaterial", None, p, NoConfiguration))

SetMaterialOf(m, p, node) ==
  /\ m \in registry /\ m # active
  /\ Commit(setMaterialOf(State, m, p, node), Called("setMaterialOf", m, p, NoConfiguration))

SetVariant(p, node) ==
  /\ active # None
  /\ Commit(setVariant(State, p, node), Called("setVariant", None, p, NoConfiguration))

SetQualityGroup(qt, unresolved) ==
  /\ active # None
  /\ Commit(setQualityGroup(State, StaleGroup(getQualityGroup(State, active, qt), unresolved)),
            [Called("setQualityGroup", None, GlobalPos, NoConfiguration) EXCEPT !.arg = qt])

SetQualityGroupOf(m, qt) ==
  /\ m \in registry /\ m # active
  /\ qt # None => QualityContainer(m, qt) # None
  /\ Commit(setQualityGroupOf(State, m, getQualityGroup(State, m, qt)),
            [Called("setQualityGroupOf", m, GlobalPos, NoConfiguration) EXCEPT !.arg = qt])

SetQualityGroupByQualityType(quality_type) ==
  /\ active # None
  /\ Commit(setQualityGroupByQualityType(State, quality_type),
            [Called("setQualityGroupByQualityType", None, GlobalPos, NoConfiguration)
               EXCEPT !.arg = quality_type])

ResetToUseDefaultQuality ==
  /\ active # None
  /\ Commit(resetToUseDefaultQuality(State),
            Called("resetToUseDefaultQuality", None, GlobalPos, NoConfiguration))

SetQualityChangesGroup(name) ==
  /\ active # None
  /\ Commit(setQualityChangesGroup(State, name),
            Called("setQualityChangesGroup", None, GlobalPos, NoConfiguration))

SetExtruderEnabled(p, enabled) ==
  /\ active # None
  /\ Commit(setExtruderEnabled(State, p, enabled),
            Called("setExtruderEnabled", None, p, NoConfiguration))

SetActiveMachineExtruderCount(extruder_count) ==
  /\ active # None
  /\ Commit(setActiveMachineExtruderCount(State, extruder_count),
            [Called("setActiveMachineExtruderCount", None, GlobalPos, NoConfiguration)
               EXCEPT !.arg = extruder_count])

\* the debounce timer fires: __emitChangedSignals
Timeout ==
  /\ timer
  /\ ops' = IF ops < MaxOps THEN ops + 1 ELSE ops
  /\ \E S \in {emitChangedSignals([State EXCEPT !.timer = FALSE])} :
       Assign(S, Called("timeout", None, GlobalPos, NoConfiguration))

Next ==
  \/ \E m \in Machines : SetActiveMachine(m)
  \/ \E m \in Machines : \E order \in Orders : RemoveMachine(m, order)
  \/ \E configuration \in Configurations : ApplyRemoteConfiguration(configuration)
  \/ \E node \in Buildplates : SetGlobalVariant(node)
  \/ \E p \in Positions : \E node \in MaterialContainers \cup {None} : SetMaterial(p, node)
  \/ \E m \in Machines : \E p \in Positions : SetMaterialOf(m, p, "abs_AA")
  \/ \E p \in Positions : \E node \in Nozzles : SetVariant(p, node)
  \/ \E qt \in QualityTypes \cup {None} : \E unresolved \in {{}, {0}} :
       SetQualityGroup(qt, unresolved)
  \/ \E m \in Machines : \E qt \in {"draft", None} : SetQualityGroupOf(m, qt)
  \/ \E quality_type \in {"draft", "high"} : SetQualityGroupByQualityType(quality_type)
  \/ ResetToUseDefaultQuality
  \/ \E name \in QualityChangesNames : SetQualityChangesGroup(name)
  \/ \E p \in Positions : \E enabled \in BOOLEAN : SetExtruderEnabled(p, enabled)
  \/ \E extruder_count \in 1 .. MaxExtruders : SetActiveMachineExtruderCount(extruder_count)
  \/ Timeout

Spec == Init /\ [][Next]_vars

\* The recomputation of the default extruder on its own, for a machine with
\* more extruder stacks than one digit numbers: the machine is active, all of
\* its stacks are below machine_extruder_count, and any of them may be enabled.
ManyExtruders == 11
ManyStack(enabled) ==
  [StoredStack(TRUE, ManyExtruders, empty_quality_changes_container) EXCEPT
     !.ext = [p \in DOMAIN enabled |->
                [StoredExtruder(p, empty_quality_changes_container)
                   EXCEPT !.enabled = enabled[p]]],
     !.enabledCount = Cardinality({p \in DOMAIN enabled : enabled[p]})]
ManyExtrudersInit ==
  /\ registry = Machines
  /\ app = "A" /\ active = "A"
  /\ \E enabled \in [0 .. (ManyExtruders - 1) -> BOOLEAN] :
       stacks = [m \in Machines |->
                   IF m = "A" THEN ManyStack(enabled)
                   ELSE StoredStack(FALSE, MaxExtruders, empty_quality_changes_container)]
  /\ curQG = NoGroup /\ curQCG = None
  /\ rootMat = [p \in {} |-> None]
  /\ defExt = 0 /\ activeExt = 0
  /\ connected = {} /\ timer = FALSE
  /\ pref = "A" /\ faulty = {}
  /\ qcType = [n \in QualityChangesNames |-> IF n = "custom1" THEN "normal" ELSE "fine"]
  /\ qcExt = [n \in QualityChangesNames |-> IF n = "custom1" THEN {1} ELSE {}]
  /\ config = NoPrinterConfiguration
  /\ raised = None
  /\ log = <<>> /\ notice = FALSE /\ toDisable = {} /\ deletions = <<>>
  /\ last = [op |-> "init", m |-> None, pos |-> GlobalPos, prev |-> None,
             cfg |-> NoConfiguration, arg |-> None]
  /\ ops = 0
UpdateDefaultExtruder ==
  /\ active # None
  /\ Commit(updateDefaultExtruder(State),
            Called("updateDefaultExtruder", None, GlobalPos, NoConfiguration))
ManyExtrudersSpec == ManyExtrudersInit /\ [][UpdateDefaultExtruder]_vars

\* The same operations with fewer inputs per operation (one deletion order,
\* reports that say the same of every extruder), and the debounce timer under
\* weak fairness: the timer is a QTimer of the application's event loop, so
\* once started it expires when the loop runs, unless it is restarted first.
UniformConfigurations ==
  {c \in Configurations : \A p, q \in DOMAIN c.extruders : c.extruders[p] = c.extruders[q]}
DebounceNext ==
  \/ \E m \in Machines : SetActiveMachine(m)
  \/ \E m \in Machines : RemoveMachine(m, <<"A", "B", "C">>)
  \/ \E configuration \in UniformConfigurations : ApplyRemoteConfiguration(configuration)
  \/ \E node \in Buildplates : SetGlobalVariant(node)
  \/ \E p \in Positions : \E node \in MaterialContainers \cup {None} : SetMaterial(p, node)
  \/ \E m \in Machines : \E p \in Positions : SetMaterialOf(m, p, "abs_AA")
  \/ \E p \in Positions : \E node \in Nozzles : SetVariant(p, node)
  \/ \E qt \in QualityTypes \cup {None} : \E unresolved \in {{}, {0}} :
       SetQualityGroup(qt, unresolved)
  \/ \E m \in Machines : SetQualityGroupOf(m, "draft")
  \/ SetQualityGroupByQualityType("draft")
  \/ ResetToUseDefaultQuality
  \/ \E name \in QualityChangesNames : SetQualityChangesGroup(name)
  \/ \E p \in Positions : \E enabled \in BOOLEAN : SetExtruderEnabled(p, enabled)
  \/ \E extruder_count \in 1 .. MaxExtruders : SetActiveMachineExtruderCount(extruder_count)
  \/ Timeout
DebounceSpec == Init /\ [][DebounceNext]_vars /\ WF_vars(Timeout)

\* ================================================================ properties
\* `last` names the step that led to the current state; `log` lists, in order,
\* the stack writes, the signals emitted and the containersChanged signals the
\* resolver received during that step.
ReconciliationOps ==
  {"setQualityGroup", "setQualityChangesGroup", "setMaterial", "setVariant",
   "setGlobalVariant", "setExtruderEnabled", "applyRemoteConfiguration", "setActiveMachine"}
Reconciled == last.op \in ReconciliationOps /\ active # None
ExactlyOne(a, b, c) == (a /\ ~b /\ ~c) \/ (~a /\ b /\ ~c) \/ (~a /\ ~b /\ c)
Activated == last.op = "setActiveMachine" /\ active = last.m
Applied == last.op = "applyRemoteConfiguration" /\ active # None
EnabledExtruders(m) == {p \in Positions : stacks[m].ext[p].enabled}
Reported == DOMAIN last.cfg.extruders
LacksNozzle(p) == last.cfg.extruders[p].hotendID = ""
LacksMaterial(p) == last.cfg.extruders[p].guid = ""
ConsumerSignals ==
  {"activeVariantChanged", "rootMaterialChanged", "activeQualityGroupChanged",
   "activeQualityChangesGroupChanged", "currentConfigurationChanged"}

C2_QualityBelongsToNewMachine ==
  Activated =>
    \/ /\ curQG = NoGroup
       /\ stacks[active].quality = empty_quality_container
       /\ \A p \in Positions : stacks[active].ext[p].quality = empty_quality_container
    \/ /\ curQG # NoGroup
       /\ curQG = QualityGroupOf(State, active, curQG.quality_type)
       /\ stacks[active].quality = QualityContainer(active, curQG.quality_type)
       /\ \A p \in curQG.exts : stacks[active].ext[p].quality = curQG.quality_type

\* C3: after setActiveMachine(B) succeeds while machine A was active, the
\* resolver is connected to no stack of A, so that a container change on A's
\* global stack or extruder stacks no longer reaches it.
C3_OldMachineDisconnected ==
  (Activated /\ last.prev # None /\ last.prev # active) =>
    \A st \in connected : st[1] # last.prev

\* C4: a setActiveMachine(id) for a stack that fails validation flags the stack
\* faulty and leaves the active machine, the current quality and
\* quality-changes groups, the root-material cache and the persisted
\* last-active-machine id as they were.
C4_InvalidStackAborts ==
  [][(last'.op = "setActiveMachine" /\ last'.m \in registry /\ ~stacks[last'.m].valid)
       => /\ last'.m \in faulty'
          /\ active' = active /\ curQG' = curQG /\ curQCG' = curQCG
          /\ rootMat' = rootMat /\ pref' = pref]_vars
\* C4: an invalid stack was refused while a machine with a quality group was active
C4_Witness ==
  /\ last.op = "setActiveMachine" /\ last.m \in faulty /\ ~stacks[last.m].valid
  /\ active # None /\ active = last.prev /\ curQG # NoGroup /\ pref = active

\* C5: whenever removeMachine deletes the stack of the machine that was active
\* when it was called, and another machine exists in the registry, a different
\* machine of the registry is the active machine at the moment of the deletion.
C5_OtherMachineActiveAtDeletion ==
  last.op = "removeMachine" =>
    \A i \in DOMAIN deletions :
      (deletions[i].was_active /\ deletions[i].registry \ {deletions[i].id} # {})
        => /\ deletions[i].active # None
           /\ deletions[i].active # deletions[i].id
           /\ deletions[i].active \in deletions[i].registry

\* C6: after applyRemoteConfiguration at least one extruder with a position
\* below machine_extruder_count is enabled, whatever the configuration reports.
C6_AnExtruderStaysEnabled ==
  Applied => \E p \in EnabledExtruders(active) : p < stacks[active].count

\* C7, as stated: a reported extruder is a disable candidate exactly when it
\* reports neither a nozzle id nor a material GUID.
C7_CandidateWhenBothMissing ==
  Applied => toDisable = {p \in Reported : LacksNozzle(p) /\ LacksMaterial(p)}
\* C7, amended: a reported extruder is a disable candidate exactly when it
\* lacks a nozzle id or lacks a material GUID, and a candidate is disabled
\* afterwards unless it is the lowest one and there are as many candidates as
\* the machine has extruder stacks.
C7_CandidateWhenEitherMissing ==
  Applied =>
    /\ toDisable = {p \in Reported : LacksNozzle(p) \/ LacksMaterial(p)}
    /\ \A p \in toDisable :
         stacks[active].ext[p].enabled <=>
           (Cardinality(toDisable) = Cardinality(DOMAIN stacks[active].ext) /\ p = Min(toDisable))
\* C7: an extruder reporting a nozzle but no material was disabled
C7_Witness ==
  /\ Applied
  /\ \E p \in Reported : /\ ~LacksNozzle(p) /\ LacksMaterial(p)
                         /\ p \in toDisable /\ ~stacks[active].ext[p].enabled

\* C8: when the configuration reports every extruder of the machine (two of
\* them, for MaxExtruders = 2) with an empty nozzle id and an empty material
\* GUID, then afterwards exactly one extruder is enabled, the one with the
\* lowest index, and the notice has been shown.
C8_AllEmptyKeepsFirst ==
  (Applied /\ Reported = Positions /\ \A p \in Reported : LacksNozzle(p) /\ LacksMaterial(p))
    => EnabledExtruders(active) = {0} /\ notice
\* C8: such a configuration was applied to a machine with two or more extruders
C8_Witness ==
  /\ Applied /\ Reported = Positions /\ Cardinality(Positions) >= 2
  /\ \A p \in Reported : LacksNozzle(p) /\ LacksMaterial(p)
  /\ ~stacks[active].ext[1].enabled /\ notice

\* C9: during applyRemoteConfiguration no containersChanged signal of a stack
\* of the machine being reconfigured reaches the resolver before the last
\* stack write of the operation, also when the operation switches machines.
C9_NoDeliveryBeforeLastWrite ==
  Applied =>
    \A i, j \in DOMAIN log :
      (log[i].k = "recv" /\ log[i].m = active /\ log[j].k = "write") => j < i

\* C10: during setVariant, setMaterial and setGlobalVariant no consumer-visible
\* notification (variant, root material, quality group, quality-changes group,
\* current configuration) is delivered before the last stack write.
C10_NotifiedAfterLastWrite ==
  (last.op \in {"setVariant", "setMaterial", "setGlobalVariant"} /\ active # None) =>
    \A i, j \in DOMAIN log :
      (log[i].k = "emit" /\ log[i].n \in ConsumerSignals /\ log[j].k = "write") => j < i

\* C11: the debounce of container changes. Every delivered containersChanged
\* leaves the timer running; the settled notification is sent by a timer
\* expiry only, which needs a running timer and leaves it stopped (so one burst
\* of changes gets one notification, after its last change); nothing but the
\* expiry stops the timer; and a running timer eventually expires.
C11_Debounce ==
  /\ []((\E i \in DOMAIN log : log[i].k = "recv") => timer)
  /\ [](last.op = "timeout" => (~timer /\ \A i \in DOMAIN log : log[i].k # "recv"))
  /\ [][(last'.op = "timeout" /\ last' # last) => (timer /\ ~timer')]_vars
  /\ [][(timer /\ ~timer') => last'.op = "timeout"]_vars
  /\ (timer ~> (last.op = "timeout" /\ ~timer))
C11_Witness ==
  /\ last.op = "timeout" /\ ~timer
  /\ \E i \in DOMAIN log : log[i].k = "emit" /\ log[i].n = "rootMaterialChanged"

\* the quality and quality-changes slots of the active machine's stacks
QualitySlots ==
  IF active = None THEN <<>>
  ELSE [p \in {GlobalPos} \cup Positions |->
          IF p = GlobalPos
          THEN <<stacks[active].quality, stacks[active].qualityChanges>>
          ELSE <<stacks[active].ext[p].quality, stacks[active].ext[p].qualityChanges>>]
AllSlotsEmpty ==
  \A p \in DOMAIN QualitySlots :
    QualitySlots[p] = <<empty_quality_container, empty_quality_changes_container>>

\* C12 (as claimed): setQualityGroup(null) on the active machine changes neither
\* a quality or quality-changes slot of the machine's stacks nor the current
\* quality group nor the current quality-changes group.
C12_NullIsNoOp ==
  [][(last'.op = "setQualityGroup" /\ last'.arg = None /\ ops' = ops + 1) =>
       (QualitySlots' = QualitySlots /\ curQG' = curQG /\ curQCG' = curQCG)]_vars

\* C12 (as the code has it): setQualityGroup(null) on the active machine
\* selects the empty quality: afterwards both current groups are null and every
\* quality and quality-changes slot of the machine's stacks holds its empty
\* sentinel.
C12_NullSelectsEmptyQuality ==
  (last.op = "setQualityGroup" /\ last.arg = None) =>
    (curQG = NoGroup /\ curQCG = None /\ AllSlotsEmpty)
C12_Witness ==
  /\ last.op = "setQualityGroup" /\ last.arg = None /\ active # None
  /\ \E i \in DOMAIN log : log[i].k = "write" /\ log[i].n = "quality"
  /\ AllSlotsEmpty

\* C13: after setQualityGroup(g) on the active machine with default options,
\* where g's global container resolves, no custom quality is selected and the
\* quality-changes slot of the global stack and of every extruder stack of the
\* machine holds the empty sentinel.
C13_EveryQualityChangesSlotReset ==
  (/\ last.op = "setQualityGroup" /\ last.arg \in QualityTypes /\ active # None
   /\ QualityContainer(active, last.arg) # None) =>
    /\ curQCG = None
    /\ \A p \in DOMAIN QualitySlots : QualitySlots[p][2] = empty_quality_changes_container

\* what a state S says of the quality selection of the active machine: the
\* current groups and the quality and quality-changes slots of every stack
QualityView(S) ==
  [group |-> S.curQG, changes |-> S.curQCG,
   global |-> <<S.stacks[S.active].quality, S.stacks[S.active].qualityChanges>>,
   extruders |-> [p \in Positions |-> <<S.stacks[S.active].ext[p].quality,
                                        S.stacks[S.active].ext[p].qualityChanges>>]]

\* a machine is active and the behaviour has a call left
Callable == active # None /\ ops < MaxOps

\* C14: setQualityGroup is idempotent: from any state in which it can be
\* called, and for any group g (null, resolving or not), calling
\* setQualityGroup(g) twice in succession leaves the same current groups and
\* the same quality and quality-changes slots on every stack as calling it once.
C14_SetQualityGroupIdempotent ==
  Callable =>
    \A qt \in QualityTypes \cup {None} :
      \A g \in {getQualityGroup(State, active, qt)} :
        \A once \in {setQualityGroup(State, g)} :
          QualityView(setQualityGroup(once, g)) = QualityView(once)
C14_Witness ==
  /\ Callable /\ curQCG # None
  /\ \E qt \in QualityTypes :
       \E g \in {getQualityGroup(State, active, qt)} :
         \E once \in {setQualityGroup(State, g)} :
           /\ QualityView(once) # QualityView(State)
           /\ QualityView(once).group = g
           /\ QualityView(setQualityGroup(once, g)).group = g

\* the operations that end with a quality reconciliation (_updateQualityWithMaterial)
QualityReconcilingOps ==
  {"setMaterial", "setVariant", "setGlobalVariant", "setExtruderEnabled",
   "applyRemoteConfiguration"}

\* C15: after an operation that ends with a quality reconciliation, if the
\* material of an enabled extruder lacks the compatible flag, the machine is in
\* NoQuality: both current groups are null and every quality and
\* quality-changes slot holds its empty sentinel.
C15_IncompatibleForcesNoQuality ==
  (last.op \in QualityReconcilingOps /\ active # None /\ ~activeMaterialsCompatible(State)) =>
    (curQG = NoGroup /\ curQCG = None /\ AllSlotsEmpty)

\* the quality types of the current state's active machine that are available
AvailableQualityTypes == {qt \in QualityTypesOf(active) : IsAvailable(State, active, qt)}
CurrentQualityType == IF curQG # NoGroup THEN curQG.quality_type ELSE None
\* quality type names in lexicographic order
Lexicographic == <<"draft", "fine", "normal">>
LexicographicallySmallest(types) ==
  Lexicographic[Min({i \in DOMAIN Lexicographic : Lexicographic[i] \in types})]
\* the reconciliation has to choose a quality type
MustChooseQualityType ==
  /\ Callable /\ activeMaterialsCompatible(State)
  /\ AvailableQualityTypes # {} /\ CurrentQualityType \notin AvailableQualityTypes

\* C16: when the quality reconciliation finds the materials compatible and a
\* non-empty set of available quality types without the current one, it selects
\* the machine's preferred type if that is available and the lexicographically
\* smallest available type otherwise, as a fresh Quality selection: that
\* type's group is current, no quality-changes group is current, and the
\* global stack and the group's extruders hold the type's quality and the empty
\* quality-changes sentinel.
C16_PreferredElseSmallest ==
  MustChooseQualityType =>
    \A chosen \in {IF PreferredQualityType(active) \in AvailableQualityTypes
                   THEN PreferredQualityType(active)
                   ELSE LexicographicallySmallest(AvailableQualityTypes)} :
      \A R \in {updateQualityWithMaterial(State)} :
        /\ R.curQG = QualityGroupOf(State, active, chosen)
        /\ R.curQCG = None
        /\ QualityView(R).global = <<chosen, empty_quality_changes_container>>
        /\ \A p \in R.curQG.exts :
             QualityView(R).extruders[p] = <<chosen, empty_quality_changes_container>>
        /\ UsedPositions(State, active) \subseteq R.curQG.exts
\* the claim's example: of draft and normal only draft is left, normal is current
C16_Witness ==
  /\ MustChooseQualityType
  /\ CurrentQualityType = "normal" /\ AvailableQualityTypes = {"draft"}
  /\ curQCG # None
  /\ updateQualityWithMaterial(State).curQG.quality_type = "draft"

\* what updateMaterialWithVariant reads of position p in the current state
NozzleOf(p) ==
  IF stacks[active].ext[p].variant # empty_variant_container
  THEN stacks[active].ext[p].variant ELSE None
CandidateFamilies(p) == {BaseFile(c) : c \in getAvailableMaterials(NozzleOf(p))}

\* C17: in updateMaterialWithVariant, for a position whose candidate set is
\* non-empty but lacks the base-family id of the current material, the material
\* becomes the catalog's default material; if the catalog has no default, the
\* position's material slot holds the empty sentinel after the call.
C17_DefaultElseEmpty ==
  active # None =>
    \A p \in Positions :
      (/\ CandidateFamilies(p) # {}
       /\ BaseFile(stacks[active].ext[p].material) \notin CandidateFamilies(p)) =>
        \A R \in {updateMaterialWithVariant(State, {p})} :
          R.stacks[active].ext[p].material =
            IF getDefaultMaterial(active, NozzleOf(p)) # None
            THEN getDefaultMaterial(active, NozzleOf(p)) ELSE empty_material_container

\* the operations that assign a material on the active machine
MaterialAssigningOps ==
  {"setMaterial", "setVariant", "setGlobalVariant", "applyRemoteConfiguration",
   "setActiveMachine"}

\* C18: after every operation that assigns a material, the root-material cache
\* is in sync for every position of the active machine: the cached id of a
\* position is the base-family id of the material in the extruder's material
\* slot (null for the empty sentinel).
C18_RootMaterialInSync ==
  (last.op \in MaterialAssigningOps /\ active # None) =>
    \A p \in Positions :
      p \in DOMAIN rootMat /\ rootMat[p] = BaseFile(stacks[active].ext[p].material)

\* the materials and the root-material cache of the active machine in state S
MaterialView(S) ==
  [material |-> [p \in Positions |-> S.stacks[S.active].ext[p].material],
   root |-> S.rootMat]

\* C19: updateMaterialWithVariant is stable under repetition: in every state
\* with an active machine and for every position p, a second call of
\* updateMaterialWithVariant(p) leaves the same material in every extruder and
\* the same root-material cache as the first call.
C19_UpdateMaterialStable ==
  active # None =>
    \A p \in Positions :
      \A once \in {updateMaterialWithVariant(State, {p})} :
        MaterialView(updateMaterialWithVariant(once, {p})) = MaterialView(once)
C19_Witness ==
  /\ active # None
  /\ \E p \in Positions :
       \E once \in {updateMaterialWithVariant(State, {p})} :
         /\ MaterialView(once) # MaterialView(State)
         /\ once.stacks[active].ext[p].material # empty_material_container
         /\ MaterialView(updateMaterialWithVariant(once, {p})) = MaterialView(once)

\* C20: a call setActiveMachineExtruderCount(n) with n the machine's current
\* machine_extruder_count is a no-op: no stack and no container slot changes,
\* the extruder bookkeeping (enabled count, default extruder) and the active
\* extruder stay as they were, nothing else of the resolver changes, and the
\* call writes nothing and emits no notification.
C20_SameCountIsNoOp ==
  [][(/\ last'.op = "setActiveMachineExtruderCount" /\ ops' = ops + 1
      /\ active # None /\ last'.arg = stacks[active].count) =>
       /\ stacks' = stacks /\ defExt' = defExt /\ activeExt' = activeExt
       /\ log' = <<>> /\ ~notice'
       /\ UNCHANGED <<registry, app, active, curQG, curQCG, rootMat, connected, timer,
                      pref, faulty, qcType>>]_vars
C20_Witness ==
  /\ last.op = "setActiveMachineExtruderCount" /\ active # None
  /\ last.arg = stacks[active].count /\ log = <<>>
  /\ stacks[active].count > 1

\* the operations that end with the scrub of extruder-typed settings; a
\* setActiveMachineExtruderCount counts when it changes the count
ScrubStep ==
  /\ active # None
  /\ \/ last'.op = "setExtruderEnabled"
     \/ last'.op = "setActiveMachineExtruderCount" /\ last'.arg # stacks[active].count
\* a value of the extruder-typed setting that names an extruder the active
\* machine prints with: none (negative), or an enabled one below the count
NamesUsableExtruder(v) ==
  v >= 0 => (v < stacks[active].count /\ stacks[active].ext[v].enabled)

\* C21: after setActiveMachineExtruderCount(n) with n different from the
\* current count, and after setExtruderEnabled, the user changes of the active
\* machine hold no value of an extruder-typed setting that is an index at or
\* above machine_extruder_count or the index of a disabled extruder.
C21_NoStaleUserOverride ==
  [][ScrubStep => \A v \in stacks'[active'].user : NamesUsableExtruder(v)']_vars

\* the quality-changes container of the global stack holds a value the scrub rejects
ScrubFindsQualityChanges ==
  /\ ScrubStep
  /\ \E v \in extruderSettingOf(State, stacks[active].qualityChanges) : ~NamesUsableExtruder(v)'

\* C22: when the scrub finds that the quality-changes container of the global
\* stack holds a value of an extruder-typed setting naming a removed or a
\* disabled extruder, it leaves every quality-changes container as it is and
\* writes a user change for the setting whose value is the default extruder
\* position.
C22_ShadowedByUserOverride ==
  [][ScrubFindsQualityChanges =>
       /\ qcExt' = qcExt
       /\ stacks'[active'].user = {defExt'}
       /\ notice']_vars
\* the count is lowered below the extruder the custom profile names
C22_Witness ==
  /\ last.op = "setActiveMachineExtruderCount" /\ notice
  /\ active = "A" /\ stacks["A"].count = 1 /\ qcExt["custom1"] = {1}
  /\ stacks["A"].user = {defExt}

\* the positions of the active machine's position-to-extruder-stack mapping
ExtruderPositions == DOMAIN stacks[active].ext
\* a setActiveMachineExtruderCount step that lowers the count
LoweringStep ==
  /\ active # None
  /\ last'.op = "setActiveMachineExtruderCount" /\ last'.arg < stacks[active].count

\* C23 as stated: in every reachable state every position of the active
\* machine's position-to-extruder-stack mapping is below machine_extruder_count.
C23_PositionsBelowCount ==
  active # None => \A p \in ExtruderPositions : p < stacks[active].count

\* C23: setActiveMachineExtruderCount lowering the count removes no extruder
\* stack: the mapping keeps its positions and each stack at or above the new
\* count keeps every slot and its enabled flag; the iteration over the active
\* extruder stacks is what stays below machine_extruder_count.
C23_LoweringKeepsExtruderStacks ==
  [][LoweringStep =>
       /\ ExtruderPositions' = ExtruderPositions
       /\ \A p \in ExtruderPositions :
            p >= last'.arg => stacks'[active'].ext[p] = stacks[active].ext[p]
       /\ \A st \in getActiveExtruderStacks(State)' : st[2] < stacks'[active'].count]_vars
\* machine A after its count went down to 1: the second extruder stack is there
C23_Witness ==
  /\ last.op = "setActiveMachineExtruderCount" /\ last.arg = 1
  /\ active = "A" /\ stacks["A"].count = 1
  /\ 1 \in ExtruderPositions /\ stacks["A"].ext[1].material = "abs_AA"

\* the quality state of the machine in S as far as the extruders it prints
\* with are concerned: the type of the current quality group, the current
\* quality-changes group and the quality slots of the global stack and of the
\* extruder stacks below machine_extruder_count
UsedQualityView(S) ==
  [quality_type |-> S.curQG.quality_type, changes |-> S.curQCG,
   global |-> <<S.stacks[S.active].quality, S.stacks[S.active].qualityChanges>>,
   extruders |-> [p \in {q \in Positions : q < S.stacks[S.active].count} |->
                    <<S.stacks[S.active].ext[p].quality, S.stacks[S.active].ext[p].qualityChanges>>]]
\* the current state with another material and enabled flag on extruder p
WithExtruder(p, material, enabled) ==
  [State EXCEPT !.stacks[active].ext[p].material = material,
                !.stacks[active].ext[p].enabled = enabled]

\* C24: an extruder stack at a position at or above machine_extruder_count has
\* no influence on the quality reconciliation: whatever material and enabled
\* flag it has, activeMaterialsCompatible returns the same value and
\* _updateQualityWithMaterial ends in the same quality state.
C24_BeyondCountHasNoInfluence ==
  active # None =>
    \A p \in Positions : p >= stacks[active].count =>
      \A material \in MaterialContainers : \A enabled \in BOOLEAN :
        \A T \in {WithExtruder(p, material, enabled)} :
          /\ activeMaterialsCompatible(T) = activeMaterialsCompatible(State)
          /\ UsedQualityView(updateQualityWithMaterial(T))
               = UsedQualityView(updateQualityWithMaterial(State))

\* C25: removeMachine(id) for an id the registry does not hold is a silent
\* no-op: the call returns without an exception, no stack leaves the registry
\* and the active machine and its stacks stay as they are.
C25_AbsentIdIsNoOp ==
  [][(last'.op = "removeMachine" /\ ops' = ops + 1 /\ last'.m \notin registry) =>
       /\ raised' = None
       /\ registry' = registry /\ deletions' = <<>>
       /\ active' = active /\ app' = app /\ stacks' = stacks]_vars

\* the snapshot of S says of every extruder stack and of the build plate what
\* the stacks of the active machine hold
SnapshotMatchesStacks(S) ==
  /\ S.config.printerType = DefinitionName(S.active)
  /\ DOMAIN S.config.extruderConfigurations = DOMAIN S.stacks[S.active].ext
  /\ \A p \in DOMAIN S.stacks[S.active].ext :
       /\ S.config.extruderConfigurations[p].guid =
            (IF S.stacks[S.active].ext[p].material = empty_material_container THEN None
             ELSE Guid(S.stacks[S.active].ext[p].material))
       /\ S.config.extruderConfigurations[p].hotendID =
            (IF S.stacks[S.active].ext[p].variant = empty_variant_container THEN None
             ELSE S.stacks[S.active].ext[p].variant)
  /\ S.config.buildplateConfiguration =
       (IF S.stacks[S.active].variant = empty_variant_container THEN ""
        ELSE MachineBuildplateType(S.stacks[S.active].variant))
\* the states an operation that changes an extruder's material or nozzle or
\* the build plate can take the current state to
AfterConfigurationChange ==
  {setMaterial(State, p, node) : p \in Positions, node \in MaterialContainers \cup {None}}
    \cup {setVariant(State, p, node) : p \in Positions, node \in Nozzles}
    \cup {setGlobalVariant(State, node) : node \in Buildplates}
    \cup {applyRemoteConfiguration(State, configuration) :
            configuration \in {c \in Configurations : c.printerType = DefinitionName(active)}}
    \cup {setActiveMachine(State, m) : m \in registry}

\* C26: when the notifications have settled (the debounce timer is not
\* running) after setMaterial, setVariant, setGlobalVariant,
\* applyRemoteConfiguration or setActiveMachine, the printer configuration
\* snapshot is the projection of the stacks of the active machine: material
\* GUID and nozzle id of every extruder position, and the build-plate id.
C26_SnapshotIsProjection ==
  (active # None /\ ~timer) =>
    \A R \in AfterConfigurationChange :
      (R.active # None /\ ~R.timer) => SnapshotMatchesStacks(R)

\* a setActiveMachine step that activates the valid stack m of the registry
ActivationOf(m) ==
  /\ last'.op = "setActiveMachine" /\ last'.m = m /\ ops' = ops + 1
  /\ m \in registry /\ stacks[m].valid
\* what machine m has stored: the name in the quality-changes slot of its global
\* stack is that of a group of the catalog, the type of its quality slot likewise
StoredQualityChangesFound(m) == stacks[m].qualityChanges \in QualityChangesNames
StoredQualityTypeFound(m) ==
  getQualityGroup(State, m, QualityTypeOf(stacks[m].quality)) # NoGroup

\* C27: at activation, when the stored quality-changes of the stack is not
\* empty and the catalog has no quality-changes group of that name, and it has
\* a quality group of the stored quality type, that quality group is adopted:
\* it is the current quality group and no quality-changes group is current.
C27_StoredQualityTypeAdopted ==
  [][\A m \in Machines :
       (/\ ActivationOf(m)
        /\ stacks[m].qualityChanges # empty_quality_changes_container
        /\ ~StoredQualityChangesFound(m)
        /\ StoredQualityTypeFound(m)) =>
         /\ curQG'.quality_type = QualityTypeOf(stacks[m].quality)
         /\ curQCG' = None]_vars

\* the quality types of machine m whose group is available, and the first of
\* some types in the order the catalog hands out the groups of m
AvailableFor(m) == {qt \in QualityTypesOf(m) : IsAvailable(State, m, qt)}
InsertionOrder(m) ==
  IF "fine" \in QualityTypesOf(m) THEN Append(QualityTypeOrder, "fine") ELSE QualityTypeOrder
FirstInOrder(m, types) ==
  InsertionOrder(m)[Min({i \in DOMAIN InsertionOrder(m) : InsertionOrder(m)[i] \in types})]

\* C28: at activation, when neither the stored quality-changes nor the stored
\* quality type of the stack is found in the catalog, the quality group of the
\* machine's preferred quality type is adopted if it is among the available
\* groups, the first available group in insertion order otherwise, and with no
\* available group the machine is in NoQuality with every quality slot empty.
C28_FallbackQuality ==
  [][\A m \in Machines :
       (/\ ActivationOf(m)
        /\ ~StoredQualityChangesFound(m)
        /\ ~StoredQualityTypeFound(m)) =>
         /\ curQCG' = None
         /\ IF PreferredQualityType(m) \in AvailableFor(m)'
            THEN curQG'.quality_type = PreferredQualityType(m)
            ELSE IF AvailableFor(m)' # {}
            THEN curQG'.quality_type = FirstInOrder(m, AvailableFor(m))'
            ELSE curQG' = NoGroup /\ AllSlotsEmpty']_vars

\* the operation that led to S wrote no slot of a stack
WroteNothing(S) == \A i \in DOMAIN S.log : S.log[i].k # "write"

\* C29: setQualityGroup applies a quality group to the active machine all or
\* nothing.  If the group's global node or the node of one of its extruders
\* does not resolve to a container, no quality or quality-changes slot of any
\* stack is written and the current quality group and quality-changes group
\* stay as they are; otherwise the group is current, no quality-changes group
\* is, and the global stack and every extruder the group has a node for hold
\* the group's quality container and the empty quality-changes sentinel.
C29_AllOrNothing ==
  Callable =>
    \A qt \in QualityTypes : \A unresolved \in {{}} \cup {{p} : p \in Positions} :
      \A g \in {StaleGroup(getQualityGroup(State, active, qt), unresolved)} :
        \A R \in {setQualityGroup(State, g)} :
          IF QualityContainer(active, qt) = None \/ g.unresolved # {}
          THEN QualityView(R) = QualityView(State) /\ WroteNothing(R)
          ELSE /\ R.curQG = g /\ R.curQCG = None
               /\ QualityView(R).global =
                    <<QualityContainer(active, qt), empty_quality_changes_container>>
               /\ \A p \in g.exts :
                    QualityView(R).extruders[p] = <<qt, empty_quality_changes_container>>
\* a group whose global node resolves was passed with an extruder node that
\* does not, and the call wrote nothing
C29_Witness ==
  /\ last.op = "setQualityGroup" /\ last.arg \in QualityTypes /\ active # None
  /\ QualityContainer(active, last.arg) # None
  /\ 0 \in getQualityGroup(State, active, last.arg).exts
  /\ log # <<>> /\ \A i \in DOMAIN log : log[i].k # "write"
  /\ curQCG # None

\* the catalog has no quality group of the type of quality-changes group `name`
\* for the active machine, and the type is not "not_supported"
OrphanedFor(name) ==
  /\ qcType[name] # NotSupported
  /\ getQualityGroup(State, active, qcType[name]) = NoGroup

\* C30: setQualityChangesGroup(g) with a quality_type other than
\* "not_supported" of which the catalog has no quality group for the active
\* machine sets the quality_type of g, which is the quality_type metadata of
\* its containers, to "not_supported" and leaves the current quality group
\* null; the downgrade is permanent: after the activation of any machine, one
\* for which the catalog has a group of the original type included, a further
\* setQualityChangesGroup(g) finds the type "not_supported" and yields a null
\* quality group again.
C30_DowngradeIsPermanent ==
  Callable =>
    \A name \in QualityChangesNames : OrphanedFor(name) =>
      \A R1 \in {setQualityChangesGroup(State, name)} :
        /\ R1.qcType[name] = NotSupported
        /\ R1.curQG = NoGroup /\ R1.curQCG = name
        /\ \A m \in {x \in R1.registry : R1.stacks[x].valid} :
             \A R2 \in {setActiveMachine(R1, m)} :
               \A R3 \in {setQualityChangesGroup(R2, name)} :
                 /\ R3.active = m
                 /\ R3.qcType[name] = NotSupported
                 /\ R3.curQG = NoGroup /\ R3.curQCG = name
\* custom2, made from the "fine" type, was selected on machine A, which has no
\* group of that type, while machine B has one
C30_Witness ==
  /\ last.op = "setQualityChangesGroup" /\ active = "A"
  /\ curQCG = "custom2" /\ curQG = NoGroup
  /\ qcType["custom2"] = NotSupported
  /\ "B" \in registry /\ getQualityGroup(State, "B", "fine") # NoGroup

\* a step of an operation on the active machine that changes the quality
\* selection only through the reconciliation it ends with
ReconcilingStep ==
  /\ active # None /\ ops' = ops + 1
  /\ last'.op \in {"setMaterial", "setVariant", "setGlobalVariant", "setExtruderEnabled"}
\* the reconciliation of the step found the materials compatible and no
\* quality type available
NoQualityTypeLeft ==
  ReconcilingStep /\ activeMaterialsCompatible(State)' /\ AvailableQualityTypes' = {}

\* C31: when the quality reconciliation finds the materials compatible and no
\* available quality type, it forces NoQuality if no quality-changes group is
\* current; if one is current, the current quality-changes group and the
\* quality and quality-changes slots of every stack stay as they were.
C31_KeepsQualityChangesSelection ==
  [][NoQualityTypeLeft =>
       IF curQCG = None
       THEN curQG' = NoGroup /\ curQCG' = None /\ AllSlotsEmpty'
       ELSE curQCG' = curQCG /\ QualitySlots' = QualitySlots]_vars
\* the only extruder in use gets a material without profiles while a custom
\* profile is selected
C31_Witness ==
  /\ last.op = "setMaterial" /\ active = "A" /\ curQCG # None
  /\ activeMaterialsCompatible(State) /\ AvailableQualityTypes = {}
  /\ ~AllSlotsEmpty

\* the machines a removeMachine(machine_id) may remove from registry r: the
\* machine itself and the machines sharing its network group id
GroupOf(machine_id, r) ==
  {m \in r : m = machine_id \/ (GroupId(machine_id) # None /\ GroupId(m) = GroupId(machine_id))}
\* the ids removed by the calls of removeMachine of one step, outermost first
RemovedIds(d) == [i \in DOMAIN d |-> d[i].id]

\* C32: removeMachine(id) terminates, also for machines that share a network
\* group id: every call of the recursion removes one machine of the group that
\* the registry still held, no machine twice, so the number of calls is at most
\* the number of machines with that group id, and no machine of the group is
\* left when it returns.
C32_RecursionBoundedByGroup ==
  [][(last'.op = "removeMachine" /\ ops' = ops + 1) =>
       \A ids \in {RemovedIds(deletions')} :
         /\ \A i, j \in DOMAIN ids : ids[i] = ids[j] => i = j
         /\ \A i \in DOMAIN ids : ids[i] \in GroupOf(last'.m, registry)
         /\ Len(ids) <= Cardinality(GroupOf(last'.m, registry))
         /\ registry' = registry \ {ids[i] : i \in DOMAIN ids}
         /\ raised' = None => GroupOf(last'.m, registry') = {}]_vars
\* a removal that recursed once: the other machine of the group went as well
C32_Witness ==
  /\ last.op = "removeMachine" /\ raised = None
  /\ Len(deletions) = 2 /\ deletions[2].id # last.m
  /\ GroupId(deletions[2].id) = GroupId(last.m)
  /\ registry = {"C"}

\* a call of setQualityGroupByQualityType on the active machine with a quality
\* type the catalog has no group of for that machine
UnknownQualityTypeStep ==
  /\ active # None /\ ops' = ops + 1
  /\ last'.op = "setQualityGroupByQualityType"
  /\ last'.arg \notin QualityTypesOf(active)

\* C33: setQualityGroupByQualityType(t) with a quality type t for which the
\* catalog returns no group for the active machine does not fail the caller: it
\* returns, and either nothing of the quality selection has changed or the
\* machine is in NoQuality.
C33_UnknownTypeDegrades ==
  [][UnknownQualityTypeStep =>
       /\ raised' = None
       /\ \/ curQG' = curQG /\ curQCG' = curQCG /\ QualitySlots' = QualitySlots
          \/ curQG' = NoGroup /\ curQCG' = None /\ AllSlotsEmpty']_vars

\* the steps that recompute the default extruder position: the four operations
\* and the recomputation they all run (updateDefaultExtruder)
DefaultExtruderOps ==
  {"setActiveMachine", "setActiveMachineExtruderCount", "setExtruderEnabled",
   "applyRemoteConfiguration", "updateDefaultExtruder"}
\* the extruders of the active machine that are enabled and below the count
UsableExtruders ==
  {p \in DOMAIN stacks[active].ext :
     stacks[active].ext[p].enabled /\ p < stacks[active].count}

\* C34: after an operation that recomputes it, the default extruder position is
\* the lowest position of an extruder that is enabled and below
\* machine_extruder_count, whenever there is such an extruder.
C34_DefaultIsLowestUsable ==
  (active # None /\ last.op \in DefaultExtruderOps /\ UsableExtruders # {}) =>
    defExt = Min(UsableExtruders)

\* the operations that recount the enabled extruders
ExtruderCountingOps ==
  {"setActiveMachine", "setActiveMachineExtruderCount", "setExtruderEnabled",
   "applyRemoteConfiguration"}

\* C35: after setActiveMachine, setActiveMachineExtruderCount,
\* setExtruderEnabled and applyRemoteConfiguration, the stored
\* extruders_enabled_count of the active machine is the number of extruder
\* stacks that are enabled and whose position is below machine_extruder_count.
C35_EnabledCountMatches ==
  (active # None /\ last.op \in ExtruderCountingOps) =>
    stacks[active].enabledCount = Cardinality(UsableExtruders)
\* an enabled extruder stack beyond the count is left out of the number
C35_Witness ==
  /\ active # None /\ last.op = "setExtruderEnabled"
  /\ \E p \in Positions : p >= stacks[active].count /\ stacks[active].ext[p].enabled
  /\ stacks[active].enabledCount = 1 /\ Cardinality(UsableExtruders) = 1

\* C36: after setExtruderEnabled, setActiveMachineExtruderCount,
\* applyRemoteConfiguration and setActiveMachine, the active extruder of the
\* user interface (ExtruderManager.activeExtruderIndex) is an enabled extruder
\* below machine_extruder_count, whenever the machine has such an extruder.
C36_ActiveExtruderUsable ==
  (active # None /\ last.op \in ExtruderCountingOps /\ UsableExtruders # {}) =>
    activeExt \in UsableExtruders

\* C37: whenever a quality-changes group is current, either no quality group is
\* current and the quality-changes group's quality_type is "not_supported", or
\* the current quality group has the quality_type of the quality-changes group.
C37_GroupsAgreeOnQualityType ==
  curQCG # None =>
    \/ curQG = NoGroup /\ qcType[curQCG] = NotSupported
    \/ curQG # NoGroup /\ curQG.quality_type = qcType[curQCG]
\* a reconciliation found the type of the custom profile still available and
\* kept the custom profile with the quality group of that type
C37_Witness ==
  /\ last.op = "setMaterial" /\ active = "A" /\ curQCG = "custom1"
  /\ stacks["A"].ext[1].material = "pla_AA"
  /\ curQG # NoGroup /\ curQG.quality_type = qcType["custom1"]
  /\ \E i \in DOMAIN log : log[i] = Ev("emit", "", GlobalPos, "activeQualityGroupChanged")

\* C38: the active machine is either absent or a machine the registry still
\* holds; removeMachine never returns with a machine it has deleted as the
\* active machine.
C38_ActiveMachineInRegistry ==
  active # None => active \in registry

\* the states a call of setMaterial or setQualityGroup with the stack of
\* machine m, which is not the active one, as its global_stack argument leads to
AfterCallOnOtherStack(m) ==
  {setMaterialOf(State, m, p, node) : p \in Positions, node \in MaterialContainers}
    \cup {setQualityGroupOf(State, m, getQualityGroup(State, m, qt)) : qt \in {"draft"}}
\* all that the call has written are slots of the stacks of machine m
WroteOnly(S, m) ==
  \A i \in DOMAIN S.log : S.log[i].k = "write" => S.log[i].m = m

\* C39: setQualityGroup and setMaterial called with a global_stack that is not
\* the active machine write only slots of that stack: the stacks of the active
\* machine, the current quality group, the current quality-changes group and
\* the root-material cache stay as they are, and no change notification comes
\* of the call (no signal is emitted and the debounce timer, which emits the
\* change notifications when it expires, is not started).
C39_OtherStackOnly ==
  \A m \in registry \ {active} :
    \A R \in AfterCallOnOtherStack(m) :
      /\ WroteOnly(R, m) /\ \A o \in Machines \ {m} : R.stacks[o] = stacks[o]
      /\ R.active = active /\ R.curQG = curQG /\ R.curQCG = curQCG /\ R.rootMat = rootMat
      /\ \A i \in DOMAIN R.log : R.log[i].k # "emit"
      /\ R.timer = timer

\* C40: after resetToUseDefaultQuality on an active machine the user changes
\* are empty, no quality-changes group is current, and the current quality
\* group is the one that was current before the call (so the machine is in
\* NoQuality only if it had no current quality group before).
C40_ResetSelectsDefaultQuality ==
  active # None =>
    \A R \in {resetToUseDefaultQuality(State)} :
      /\ R.stacks[active].user = {}
      /\ R.curQCG = None
      /\ R.curQG = curQG

=============================================================================
